---- MODULE Spec2Model ----
(***************************************************************************)
(* Model of the MCP server registry of NuvexAI/Nuvex                        *)
(* (src/agents/agent/mcp/registry/mcp_server_registry.py): the registry's   *)
(* active-session and init-hook tables, the start_server /                  *)
(* initialize_server scopes, stop_server, and the stdio and websocket       *)
(* transport bridges with their read and write pump tasks.                  *)
(***************************************************************************)
EXTENDS Integers, Sequences, FiniteSets, TLC

\* ---------------------------------------------------------------- bounds
MaxMsgs == 1         \* items the callers write into sessions in one run
Cap == 2             \* capacity of one direction of the duplex channel
MaxChunks == 2       \* items written into the session of the bridge specification

\* ----------------------------------------------------------------- tasks
Calls == {1, 2}      \* start_server / initialize_server scopes (callers)
Solo == {1}          \* the caller of the single-scope specification
Stoppers == {1}      \* stop_server invocations

\* ---------------------------------------------------------------- values
None == 0                         \* "no session" (dict.get(...) -> None)
NoHook == "nohook"                \* "no hook"    (init_hook=None / absent key)
HookIds == {"hA", "hB"}

\* Names a caller may pass. "u" is not configured.
Names == {"s", "w", "wn", "x", "u"}

\* Names hooks are registered for in a run
HookNames == {"s", "w"}

\* Names stop_server is called with in a run ("u" is never active)
StopNames == {"s", "w", "u"}

\* self.registry: name -> MCPServerSettings (transport, url present?)
Registry ==
  [n \in {"s", "w", "wn", "x"} |->
     CASE n = "s"  -> [transport |-> "stdio",     url |-> FALSE]
       [] n = "w"  -> [transport |-> "websocket", url |-> TRUE]
       [] n = "wn" -> [transport |-> "websocket", url |-> FALSE]
       [] n = "x"  -> [transport |-> "sse",       url |-> TRUE]]

\* ---- dynamic capability server (mcp_service.py)
MaxStream == 2       \* chunks the invocation delegate's result stream yields

Reqs == {"r1", "r2"}               \* capability requests in progress
SoloReq == {"r1"}                  \* the request of a single connection
ToolIds == {"A", "B"}
ToolNames == {"ta", "tb"}
Absent == "absent"                 \* id missing from the resolver's mapping
ReqNames == ToolNames \cup {"zz"}  \* tool name argument of call_tool
SlashName == "v1/ta"               \* a tool name that contains a slash
PromptNames == {"p1"}              \* stored prompt templates
ResourceUris == {"u1"}             \* stored resources
Discovery == {"list_tools", "list_prompts", "list_resources"}
ReqKinds == Discovery \cup {"call_tool"}
\* f"{mcp_name}-help"
HelpName == "N-help"
\* f"use-{tool_data.name}" for the tool names of the universe
UseOf ==
  [t \in ToolNames \cup {"zz", SlashName} |->
     CASE t = "ta" -> "use-ta" [] t = "tb" -> "use-tb" [] t = "zz" -> "use-zz"
       [] t = SlashName -> "use-v1/ta"]
\* name.startswith("use-")
HasUsePrefix(nm) == \E t \in DOMAIN UseOf : UseOf[t] = nm
\* name[4:]
StripUse(nm) == CHOOSE t \in DOMAIN UseOf : UseOf[t] = nm
\* names a stored prompt template may carry, and names get_prompt is asked for
StoredPromptNames == {"p1", HelpName, "use-ta"}
GetNames == StoredPromptNames \cup {"use-zz", "other"}
\* f"doc://{mcp_name}/overview"
OverviewUri == "doc://N/overview"
\* a longer uri with that prefix
OverviewLong == "doc://N/overview/old"
\* f"doc://{mcp_name}/tools/{tool_data.name}"
DocOf ==
  [t \in ToolNames \cup {"zz", SlashName} |->
     CASE t = "ta" -> "doc://N/tools/ta" [] t = "tb" -> "doc://N/tools/tb"
       [] t = "zz" -> "doc://N/tools/zz"
       [] t = SlashName -> "doc://N/tools/v1/ta"]
\* a deeper uri under doc://N/tools/ whose last segment is ta
DocDeep == "doc://N/tools/v1/ta"
\* uri.startswith(f"doc://{mcp_name}/overview")
StartsWithOverview(u) == u \in {OverviewUri, OverviewLong}
\* uri.startswith(f"doc://{mcp_name}/tools/")
StartsWithTools(u) == u = DocDeep \/ \E t \in DOMAIN DocOf : DocOf[t] = u
\* uri.split('/')[-1]
LastSegment(u) ==
  IF u = DocDeep THEN "ta" ELSE CHOOSE t \in DOMAIN DocOf : DocOf[t] = u
\* uris a stored resource may carry, and uris read_resource is asked for
StoredUris == {"u1", OverviewUri, "doc://N/tools/ta"}
ReadUris == StoredUris \cup {OverviewLong, DocDeep, "doc://N/tools/zz", "other"}
\* arguments of get_prompt
ArgChoices ==
  {[x \in {} |-> ""], [x \in {"a"} |-> "1"],
   [x \in {"a", "b"} |-> IF x = "a" THEN "1" ELSE "2"]}
\* prompt.template of each stored prompt: literal text and {placeholders}
Lit(t) == [ph |-> FALSE, s |-> t]
Ph(n) == [ph |-> TRUE, s |-> n]
TemplateOf ==
  [p \in StoredPromptNames |->
     CASE p = "p1" -> <<Lit("Add "), Ph("a"), Lit(" and "), Ph("b")>>
       [] p = HelpName -> <<Lit("Help on "), Ph("a")>>
       [] p = "use-ta" -> <<Lit("Use it")>>]
\* HTTP method of each tool definition
MethodOf == [id \in ToolIds |-> IF id = "A" THEN "GET" ELSE "POST"]
\* tool associations of a virtual server: tool ids, each at most once
AssocLists ==
  {q \in UNION {[1..n -> ToolIds] : n \in 0..Cardinality(ToolIds)} :
     \A i, j \in 1..Len(q) : i # j => q[i] # q[j]}

VARIABLES
  \* ServerRegistry fields
  active_sessions,   \* name -> session id (None when the key is absent)
  init_hooks,        \* name -> hook id (NoHook when the key is absent)
  \* one scope (async context manager invocation) per call
  pc,                \* position of the call
  cname,             \* server_name argument
  ckind,             \* "start" (start_server) or "initialize" (initialize_server)
  chook,             \* init_hook argument of initialize_server
  err,               \* error that reached the caller, "" when none
  trace,             \* events of the call, in order
  hookUsed,          \* hook invocations of the call (hook, session, auth), in order
  \* ClientSession
  sessState,         \* handshake state of the call's session
  \* transport bridge of the call's session
  resource,          \* "none", "process" or "socket"
  peerAlive,         \* child process running / connection open
  stdinClosed,       \* process.stdin.close() was called
  released,          \* times the code released the resource
  readPc, writePc,   \* read_task / write_task: "none", "run", "done"
  inQ, inClosed,     \* read_stream: items, closed
  outQ, outClosed,   \* write_stream: items, closed
  peerIn, peerOut,   \* bytes written to / produced by the external resource
  nSent,             \* items written by callers so far
  \* stop_server invocations
  stopPc, stopName, stopSess,
  \* what went through the bridge of the call's session, in order
  sentLog,           \* items the caller sent on the channel
  wroteLog,          \* items write_task wrote to the resource
  readLog,           \* chunks read_task read from the resource
  gotLog,            \* chunks the caller received from the channel
  \* register_init_hook calls
  lastReg,           \* name -> hook of the most recent call (NoHook: none yet)
  \* backing store of the virtual server mcp_name
  srvExists,         \* the MCPServer row exists
  assoc,             \* its tool associations (tool ids), in association order
  toolName,          \* tool id -> name of the tool the resolver returns, or Absent
  prompts,           \* names of its stored prompt templates
  resources,         \* uris of its stored resources
  \* one handler invocation of the capability server per request
  reqPc,             \* "idle", "query", "resolve", "details", "invoke", "done"
  reqKind,           \* which handler
  reqName,           \* name argument of call_tool
  reqArgs,           \* arguments of call_tool are non-empty
  reqSnap,           \* server_obj as loaded by the handler's query
  reqTool,           \* matching_tool of call_tool (tool id)
  resp,              \* outcome of the handler
  invoked,           \* calls of the invocation delegate by the request, in order
  reqArgVals,        \* arguments of get_prompt: argument name -> value
  \* _convert_parameters_to_schema
  schemaIn,          \* its parameters argument
  schemaOut,         \* what it returned
  \* the gateway dispatcher and one inbound connection
  srvActive,         \* is_active of the MCPServer row
  connPc,            \* "idle", "check", "open", "closed"
  connPath,          \* scope["path"] of the connection
  connStatus,        \* status code of the response sent, 0: none
  connBuilt,         \* capability servers constructed for the connection
  connRan            \* server.run was started on the connection

regVars    == <<active_sessions, init_hooks>>
callVars   == <<pc, cname, ckind, chook, err, trace, hookUsed>>
bridgeVars == <<resource, peerAlive, stdinClosed, released, readPc, writePc,
                inQ, inClosed, outQ, outClosed, peerIn, peerOut, nSent>>
stopVars   == <<stopPc, stopName, stopSess>>
logVars    == <<sentLog, wroteLog, readLog, gotLog, lastReg>>
capVars    == <<srvExists, assoc, toolName, prompts, resources, reqPc, reqKind,
                 reqName, reqArgs, reqArgVals, reqSnap, reqTool, resp, invoked,
                 schemaIn, schemaOut, srvActive, connPc, connPath,
                 connStatus, connBuilt, connRan>>
\* the state of the server registry and its bridges
registryVars == <<regVars, callVars, sessState, bridgeVars, stopVars, logVars>>
vars == <<registryVars, capVars>>

NoSnap == [exists |-> FALSE, tools |-> << >>, prompts |-> << >>,
           resources |-> << >>, active |-> FALSE]
NoResp == [status |-> "none", body |-> << >>]
\* the handler returned body
Ok(body) == [status |-> "ok", body |-> body]
\* the handler raised
Fault == [status |-> "fault", body |-> << >>]
\* the handler raised the error what
FaultOf(what) ==
  [status |-> "fault",
   body |-> <<[kind |-> "error", name |-> what, id |-> "", value |-> 0,
               args |-> << >>]>>]
\* one entry of a handler's result
Entry(kind, name, id, value) ==
  [kind |-> kind, name |-> name, id |-> id, value |-> value, args |-> << >>]
\* an entry that carries a list (prompt arguments, message text, tool names)
EntryA(kind, name, id, args) ==
  [kind |-> kind, name |-> name, id |-> id, value |-> 0, args |-> args]
\* arguments = {} or None
NoArgs == [x \in {} |-> ""]
\* types.TextContent(type="text", text=...)
Text(what, name, value) == Entry("text", what, name, value)

\* ---- tool parameters (tool.parameters) and the input schema built from them
NoBody == "nobody"        \* no 'body' key, or an empty one
NoType == "notype"        \* the parameter has no 'type' key
NoDefault == "nodefault"  \* the parameter has no 'default' key
\* one parameter of a query / path / header list; name "" is a missing name
Params ==
  [name : {"", "a", "b"}, type : {NoType, "integer"},
   default : {NoDefault, "d"}, required : BOOLEAN]
ParamLists == {<< >>} \cup {<<q>> : q \in Params}
ParamInputs ==
  [body : {NoBody, "S"}, query : ParamLists, path : ParamLists,
   header : ParamLists]
EmptyParams == [body |-> NoBody, query |-> << >>, path |-> << >>, header |-> << >>]
NoSchema == [body |-> "unset", properties |-> << >>, required |-> << >>]

\* the loops over ['query', 'path', 'header'] visit the parameters in this order
AllParams(parameters) ==
  parameters.query \o parameters.path \o parameters.header

\* schema['properties'][name] = prop: a later parameter of the same name
\* replaces the earlier one
PropertiesOf(q) ==
  LET named == {i \in 1..Len(q) : q[i].name # ""}
      last(n) == CHOOSE i \in named :
                   /\ q[i].name = n
                   /\ \A j \in named : q[j].name = n => j <= i
  IN  [n \in {q[i].name : i \in named} |->
         [type |-> IF q[last(n)].type = NoType THEN "string"
                   ELSE q[last(n)].type,
          default |-> q[last(n)].default]]

\* schema['required'].append(name) for every named parameter marked required
RECURSIVE RequiredOf(_)
RequiredOf(q) ==
  IF q = << >> THEN << >>
  ELSE LET init == RequiredOf(SubSeq(q, 1, Len(q) - 1))
           x == q[Len(q)]
       IN  IF x.name # "" /\ x.required THEN Append(init, x.name) ELSE init

\* _convert_parameters_to_schema(parameters)
ConvertParametersToSchema(parameters) ==
  IF parameters.body # NoBody
    THEN [body |-> parameters.body, properties |-> << >>, required |-> << >>]
    ELSE [body |-> NoBody,
          properties |-> PropertiesOf(AllParams(parameters)),
          required |-> RequiredOf(AllParams(parameters))]

\* tool.parameters of each tool definition
ParamsOf ==
  [id \in ToolIds |->
     IF id = "A"
       THEN [body |-> NoBody,
             query |-> <<[name |-> "a", type |-> NoType, default |-> NoDefault,
                          required |-> TRUE]>>,
             path |-> <<[name |-> "b", type |-> "integer", default |-> "d",
                         required |-> FALSE]>>,
             header |-> << >>]
       ELSE [body |-> "S", query |-> << >>, path |-> << >>, header |-> << >>]]

\* ------------------------------------------------------------------ Init
\* state after construction, the argument of the schema conversion aside
InitRest ==
  /\ srvExists = FALSE
  /\ assoc = << >>
  /\ toolName = [id \in ToolIds |-> Absent]
  /\ prompts = << >>
  /\ resources = << >>
  /\ reqPc = [r \in Reqs |-> "idle"]
  /\ reqKind = [r \in Reqs |-> "list_tools"]
  /\ reqName = [r \in Reqs |-> ""]
  /\ reqArgs = [r \in Reqs |-> FALSE]
  /\ reqSnap = [r \in Reqs |-> NoSnap]
  /\ reqTool = [r \in Reqs |-> Absent]
  /\ resp = [r \in Reqs |-> NoResp]
  /\ invoked = [r \in Reqs |-> << >>]
  /\ reqArgVals = [r \in Reqs |-> NoArgs]
  /\ srvActive = TRUE
  /\ connPc = "idle"
  /\ connPath = ""
  /\ connStatus = 0
  /\ connBuilt = 0
  /\ connRan = FALSE
  /\ active_sessions = [n \in Names |-> None]
  /\ init_hooks = [n \in Names |-> NoHook]
  /\ pc = [c \in Calls |-> "idle"]
  /\ cname = [c \in Calls |-> "u"]
  /\ ckind = [c \in Calls |-> "start"]
  /\ chook = [c \in Calls |-> NoHook]
  /\ err = [c \in Calls |-> ""]
  /\ trace = [c \in Calls |-> << >>]
  /\ hookUsed = [c \in Calls |-> << >>]
  /\ sessState = [c \in Calls |-> "none"]
  /\ resource = [c \in Calls |-> "none"]
  /\ peerAlive = [c \in Calls |-> FALSE]
  /\ stdinClosed = [c \in Calls |-> FALSE]
  /\ released = [c \in Calls |-> 0]
  /\ readPc = [c \in Calls |-> "none"]
  /\ writePc = [c \in Calls |-> "none"]
  /\ inQ = [c \in Calls |-> << >>]
  /\ inClosed = [c \in Calls |-> FALSE]
  /\ outQ = [c \in Calls |-> << >>]
  /\ outClosed = [c \in Calls |-> FALSE]
  /\ peerIn = [c \in Calls |-> << >>]
  /\ peerOut = [c \in Calls |-> << >>]
  /\ nSent = 0
  /\ stopPc = [t \in Stoppers |-> "idle"]
  /\ stopName = [t \in Stoppers |-> "u"]
  /\ stopSess = [t \in Stoppers |-> None]
  /\ sentLog = [c \in Calls |-> << >>]
  /\ wroteLog = [c \in Calls |-> << >>]
  /\ readLog = [c \in Calls |-> << >>]
  /\ gotLog = [c \in Calls |-> << >>]
  /\ lastReg = [n \in Names |-> NoHook]

Init ==
  /\ InitRest
  /\ schemaIn = EmptyParams
  /\ schemaOut = NoSchema

\* every parameters argument of the bounded universe
SchemaInit ==
  /\ InitRest
  /\ schemaIn \in ParamInputs
  /\ schemaOut = NoSchema

\* --------------------------------------------------------------- helpers
\* self.active_sessions.pop(server_name, None)
PopActive(a, n) == [a EXCEPT ![n] = None]

\* list_active_servers(): the keys of active_sessions
list_active_servers == {n \in Names : active_sessions[n] # None}

\* SelectHook with the two sources swapped: the registered hook wins
SelectHook_RegisteredFirst(explicit, registered) ==
  IF registered # NoHook THEN registered ELSE explicit

\* init_hook or self.init_hooks.get(server_name)
SelectHook(explicit, registered) ==
  IF explicit # NoHook THEN explicit ELSE registered

\* the error initialize_server raises for anything caught by its except
InitError == "InitializationError"

\* ClientSession.close(): closes the underlying channel, marks state closed
SessionClose(c) ==
  /\ sessState' = [sessState EXCEPT ![c] = "closed"]
  /\ inClosed' = [inClosed EXCEPT ![c] = TRUE]
  /\ outClosed' = [outClosed EXCEPT ![c] = TRUE]

\* the call ends with error e after start_server's finally popped name n
RaiseAfterPop(c, n, e) ==
  /\ active_sessions' = PopActive(active_sessions, n)
  /\ pc' = [pc EXCEPT ![c] = "raised"]
  /\ err' = [err EXCEPT ![c] = e]

\* CallBegin without the registry membership test: the lookup
\* self.registry[server_name] itself fails for an unknown name
CallBegin_NoLookup(c, n, k, h) ==
  /\ UNCHANGED <<logVars, capVars>>
  /\ pc[c] = "idle"
  /\ \A d \in Calls : d < c => pc[d] # "idle"
  /\ cname' = [cname EXCEPT ![c] = n]
  /\ ckind' = [ckind EXCEPT ![c] = k]
  /\ chook' = [chook EXCEPT ![c] = h]
  /\ IF n \notin DOMAIN Registry
       THEN /\ pc' = [pc EXCEPT ![c] = "raised"]
            /\ err' = [err EXCEPT ![c] = "KeyError"]
            /\ UNCHANGED active_sessions
       ELSE IF Registry[n].transport = "stdio"
              \/ (Registry[n].transport = "websocket" /\ Registry[n].url)
       THEN /\ pc' = [pc EXCEPT ![c] = "creating"]
            /\ UNCHANGED <<err, active_sessions>>
       ELSE RaiseAfterPop(c, n, IF Registry[n].transport = "websocket"
                                  THEN "UrlRequired"
                                  ELSE "UnsupportedTransport")
  /\ UNCHANGED <<init_hooks, trace, hookUsed, sessState, bridgeVars, stopVars>>

\* CallBegin whose transport dispatch has no else branch: every transport
\* that is not websocket is started as stdio
CallBegin_DefaultStdio(c, n, k, h) ==
  /\ UNCHANGED <<logVars, capVars>>
  /\ pc[c] = "idle"
  /\ \A d \in Calls : d < c => pc[d] # "idle"
  /\ cname' = [cname EXCEPT ![c] = n]
  /\ ckind' = [ckind EXCEPT ![c] = k]
  /\ chook' = [chook EXCEPT ![c] = h]
  /\ IF n \notin DOMAIN Registry
       THEN /\ pc' = [pc EXCEPT ![c] = "raised"]
            /\ err' = [err EXCEPT ![c] = "NotFound"]
            /\ UNCHANGED active_sessions
       ELSE IF Registry[n].transport = "websocket" /\ ~Registry[n].url
       THEN RaiseAfterPop(c, n, "UrlRequired")
       ELSE /\ pc' = [pc EXCEPT ![c] = "creating"]
            /\ UNCHANGED <<err, active_sessions>>
  /\ UNCHANGED <<init_hooks, trace, hookUsed, sessState, bridgeVars, stopVars>>

\* ------------------------------------------------- start_server (scope)
\* start_server up to its first suspension: the registry lookup, and the
\* transport dispatch. initialize_server enters start_server first.
CallBegin(c, n, k, h) ==
  /\ UNCHANGED <<logVars, capVars>>
  /\ pc[c] = "idle"
  /\ \A d \in Calls : d < c => pc[d] # "idle"   \* calls are numbered as they begin
  /\ cname' = [cname EXCEPT ![c] = n]
  /\ ckind' = [ckind EXCEPT ![c] = k]
  /\ chook' = [chook EXCEPT ![c] = h]
  /\ IF n \notin DOMAIN Registry
       THEN \* raise ValueError("... not found in registry"), before the try
            /\ pc' = [pc EXCEPT ![c] = "raised"]
            /\ err' = [err EXCEPT ![c] = "NotFound"]
            /\ UNCHANGED active_sessions
       ELSE IF Registry[n].transport = "stdio"
       THEN \* await asyncio.create_subprocess_exec(...)
            /\ pc' = [pc EXCEPT ![c] = "creating"]
            /\ UNCHANGED <<err, active_sessions>>
       ELSE IF Registry[n].transport = "websocket"
       THEN IF Registry[n].url
              THEN \* await websockets.connect(...)
                   /\ pc' = [pc EXCEPT ![c] = "creating"]
                   /\ UNCHANGED <<err, active_sessions>>
              ELSE \* raise ValueError("WebSocket URL is required")
                   RaiseAfterPop(c, n, "UrlRequired")
       ELSE \* raise ValueError("Unsupported transport")
            RaiseAfterPop(c, n, "UnsupportedTransport")
  /\ UNCHANGED <<init_hooks, trace, hookUsed, sessState, bridgeVars, stopVars>>

\* create_subprocess_exec / websockets.connect raised: no resource exists
CreateFail(c) ==
  /\ UNCHANGED <<logVars, capVars>>
  /\ pc[c] = "creating"
  /\ RaiseAfterPop(c, cname[c], "TransportFailure")
  /\ UNCHANGED <<init_hooks, cname, ckind, chook, trace, hookUsed, sessState,
                 bridgeVars, stopVars>>

\* The resource exists from here on. pipesOk: process.stdin and
\* process.stdout are both set; factoryOk: client_session_factory returned.
CreateDone(c, pipesOk, factoryOk) ==
  /\ UNCHANGED <<logVars, capVars>>
  /\ pc[c] = "creating"
  /\ LET n == cname[c]
         stdio == Registry[n].transport = "stdio"
         pumps == stdio => pipesOk
     IN
     /\ resource' = [resource EXCEPT ![c] = IF stdio THEN "process" ELSE "socket"]
     /\ peerAlive' = [peerAlive EXCEPT ![c] = TRUE]
     /\ IF pumps
          THEN \* asyncio.create_task(read_task()); create_task(write_task())
               /\ readPc' = [readPc EXCEPT ![c] = "run"]
               /\ writePc' = [writePc EXCEPT ![c] = "run"]
          ELSE UNCHANGED <<readPc, writePc>>
     /\ IF ~pumps
          THEN \* raise RuntimeError("Failed to create subprocess pipes")
               /\ RaiseAfterPop(c, n, "PipesMissing")
               /\ UNCHANGED <<sessState, trace>>
          ELSE IF ~factoryOk
          THEN \* client_session_factory(...) raised
               /\ RaiseAfterPop(c, n, "FactoryError")
               /\ UNCHANGED <<sessState, trace>>
          ELSE \* self.active_sessions[server_name] = session; yield session
               /\ active_sessions' = [active_sessions EXCEPT ![n] = c]
               /\ UNCHANGED err
               /\ IF ckind[c] = "start"
                    THEN /\ pc' = [pc EXCEPT ![c] = "body"]
                         /\ sessState' = [sessState EXCEPT ![c] = "unstarted"]
                         /\ trace' = [trace EXCEPT ![c] = <<"recorded", "yielded">>]
                    ELSE \* initialize_server: await session.initialize()
                         /\ pc' = [pc EXCEPT ![c] = "initializing"]
                         /\ sessState' = [sessState EXCEPT ![c] = "handshaking"]
                         /\ trace' = [trace EXCEPT ![c] = <<"recorded">>]
  /\ UNCHANGED <<init_hooks, cname, ckind, chook, hookUsed, stdinClosed,
                 released, inQ, inClosed, outQ, outClosed, peerIn, peerOut,
                 nSent, stopVars>>

\* InitializeDone whose handshake completes on a session that was closed
\* meanwhile
InitializeDone_OnClosed(c, ok, hookRaises) ==
  /\ UNCHANGED <<logVars, capVars>>
  /\ pc[c] = "initializing"
  /\ IF ~ok
       THEN /\ RaiseAfterPop(c, cname[c], InitError)
            /\ trace' = [trace EXCEPT ![c] = Append(@, "handshake_failed")]
            /\ UNCHANGED sessState
       ELSE /\ sessState' = [sessState EXCEPT ![c] = "ready"]
            /\ pc' = [pc EXCEPT ![c] = "body"]
            /\ trace' = [trace EXCEPT ![c] = @ \o <<"initialized", "yielded">>]
            /\ UNCHANGED <<err, active_sessions>>
  /\ UNCHANGED <<init_hooks, cname, ckind, chook, hookUsed, bridgeVars, stopVars>>

\* InitializeDone that hands the session over without invoking any hook
InitializeDone_NoHook(c, ok, hookRaises) ==
  /\ UNCHANGED <<logVars, capVars>>
  /\ pc[c] = "initializing"
  /\ IF ~(ok /\ sessState[c] = "handshaking")
       THEN /\ RaiseAfterPop(c, cname[c], InitError)
            /\ trace' = [trace EXCEPT ![c] = Append(@, "handshake_failed")]
            /\ UNCHANGED sessState
       ELSE /\ sessState' = [sessState EXCEPT ![c] = "ready"]
            /\ pc' = [pc EXCEPT ![c] = "body"]
            /\ trace' = [trace EXCEPT ![c] = @ \o <<"initialized", "yielded">>]
            /\ UNCHANGED <<err, active_sessions>>
  /\ UNCHANGED <<init_hooks, cname, ckind, chook, hookUsed, bridgeVars, stopVars>>

\* InitializeDone that calls the hook before it awaits the handshake
InitializeDone_HookFirst(c, ok, hookRaises) ==
  /\ UNCHANGED <<logVars, capVars>>
  /\ pc[c] = "initializing"
  /\ LET n == cname[c]
         cb == SelectHook(chook[c], init_hooks[n])
         handshake == ok /\ sessState[c] = "handshaking"
     IN
     /\ hookUsed' = [hookUsed EXCEPT ![c] =
          IF cb # NoHook
            THEN Append(@, [hook |-> cb, session |-> c, auth |-> n])
            ELSE @]
     /\ IF (cb # NoHook /\ hookRaises) \/ ~handshake
          THEN /\ RaiseAfterPop(c, n, InitError)
               /\ trace' = [trace EXCEPT ![c] = Append(@, "handshake_failed")]
               /\ UNCHANGED sessState
          ELSE /\ sessState' = [sessState EXCEPT ![c] = "ready"]
               /\ pc' = [pc EXCEPT ![c] = "body"]
               /\ trace' = [trace EXCEPT ![c] =
                              @ \o (IF cb # NoHook THEN <<"hook">> ELSE << >>)
                                \o <<"initialized", "yielded">>]
               /\ UNCHANGED <<err, active_sessions>>
  /\ UNCHANGED <<init_hooks, cname, ckind, chook, bridgeVars, stopVars>>

\* ------------------------------------------------------ initialize_server
\* session.initialize() returned (ok) or raised; then the hook, then yield.
\* hookRaises: the invoked hook raises.
InitializeDone(c, ok, hookRaises) ==
  /\ UNCHANGED <<logVars, capVars>>
  /\ pc[c] = "initializing"
  /\ LET n == cname[c]
         cb == SelectHook(chook[c], init_hooks[n])
         handshake == ok /\ sessState[c] = "handshaking"
     IN
     IF ~handshake
       THEN \* except: raise RuntimeError("Failed to initialize server ...")
            /\ RaiseAfterPop(c, n, InitError)
            /\ trace' = [trace EXCEPT ![c] = Append(@, "handshake_failed")]
            /\ UNCHANGED <<sessState, hookUsed>>
       ELSE
            /\ sessState' = [sessState EXCEPT ![c] = "ready"]
            \* initialization_callback(session, self.registry[server_name].auth)
            /\ hookUsed' = [hookUsed EXCEPT ![c] =
                 IF cb # NoHook
                   THEN Append(@, [hook |-> cb, session |-> c, auth |-> n])
                   ELSE @]
            /\ IF cb # NoHook /\ hookRaises
                 THEN /\ RaiseAfterPop(c, n, InitError)
                      /\ trace' = [trace EXCEPT ![c] =
                                     @ \o <<"initialized", "hook">>]
                 ELSE /\ pc' = [pc EXCEPT ![c] = "body"]
                      /\ trace' = [trace EXCEPT ![c] =
                                     @ \o <<"initialized">>
                                       \o (IF cb # NoHook THEN <<"hook">> ELSE << >>)
                                       \o <<"yielded">>]
                      /\ UNCHANGED <<err, active_sessions>>
  /\ UNCHANGED <<init_hooks, cname, ckind, chook, bridgeVars, stopVars>>

\* Control leaves the scope: the caller's body finished (exc = FALSE) or
\* raised (exc = TRUE). start_server's finally pops the name.
ScopeExit(c, exc) ==
  /\ UNCHANGED <<logVars, capVars>>
  /\ pc[c] = "body"
  /\ active_sessions' = PopActive(active_sessions, cname[c])
  /\ pc' = [pc EXCEPT ![c] = IF exc THEN "raised" ELSE "exited"]
  /\ err' = [err EXCEPT ![c] =
               IF ~exc THEN ""
               ELSE IF ckind[c] = "initialize" THEN InitError
               ELSE "CallerError"]
  /\ trace' = [trace EXCEPT ![c] = Append(@, "left")]
  /\ UNCHANGED <<init_hooks, cname, ckind, chook, hookUsed, sessState,
                 bridgeVars, stopVars>>

\* register_init_hook that keeps a hook already registered (setdefault)
register_init_hook_KeepFirst(n, h) ==
  /\ lastReg' = [lastReg EXCEPT ![n] = h]
  /\ UNCHANGED <<sentLog, wroteLog, readLog, gotLog, capVars>>
  /\ init_hooks' = [init_hooks EXCEPT ![n] = IF @ = NoHook THEN h ELSE @]
  /\ UNCHANGED <<active_sessions, callVars, sessState, bridgeVars, stopVars>>

\* register_init_hook(server_name, hook)
register_init_hook(n, h) ==
  /\ lastReg' = [lastReg EXCEPT ![n] = h]
  /\ UNCHANGED <<sentLog, wroteLog, readLog, gotLog, capVars>>
  /\ init_hooks' = [init_hooks EXCEPT ![n] = h]
  /\ UNCHANGED <<active_sessions, callVars, sessState, bridgeVars, stopVars>>

\* ------------------------------------------------------------ stop_server
\* session = self.active_sessions.get(server_name); if session:
\* await session.close()  (the pop follows in StopFinish)
StopBegin(t, n) ==
  /\ UNCHANGED <<logVars, capVars>>
  /\ stopPc[t] = "idle"
  /\ stopName' = [stopName EXCEPT ![t] = n]
  /\ stopSess' = [stopSess EXCEPT ![t] = active_sessions[n]]
  /\ IF active_sessions[n] = None
       THEN /\ stopPc' = [stopPc EXCEPT ![t] = "done"]
            /\ UNCHANGED <<sessState, inClosed, outClosed>>
       ELSE /\ stopPc' = [stopPc EXCEPT ![t] = "closing"]
            /\ SessionClose(active_sessions[n])
  /\ UNCHANGED <<regVars, callVars, resource, peerAlive, stdinClosed, released,
                 readPc, writePc, inQ, outQ, peerIn, peerOut, nSent>>

\* StopFinish that forgets to pop the entry
StopFinish_NoPop(t) ==
  /\ UNCHANGED <<logVars, capVars>>
  /\ stopPc[t] = "closing"
  /\ stopPc' = [stopPc EXCEPT ![t] = "done"]
  /\ UNCHANGED <<regVars, callVars, sessState, bridgeVars, stopName, stopSess>>

\* self.active_sessions.pop(server_name): KeyError when the key is gone
StopFinish(t) ==
  /\ UNCHANGED <<logVars, capVars>>
  /\ stopPc[t] = "closing"
  /\ IF active_sessions[stopName[t]] = None
       THEN /\ stopPc' = [stopPc EXCEPT ![t] = "raised"]
            /\ UNCHANGED active_sessions
       ELSE /\ stopPc' = [stopPc EXCEPT ![t] = "done"]
            /\ active_sessions' = PopActive(active_sessions, stopName[t])
  /\ UNCHANGED <<init_hooks, callVars, sessState, bridgeVars, stopName, stopSess>>

\* PumpRead that puts the chunk at the front of the channel's buffer
PumpRead_Prepend(c) ==
  /\ readPc[c] = "run"
  /\ peerOut[c] # << >>
  /\ inClosed[c] \/ Len(inQ[c]) < Cap
  /\ peerOut' = [peerOut EXCEPT ![c] = Tail(@)]
  /\ IF inClosed[c]
       THEN /\ readPc' = [readPc EXCEPT ![c] = "done"]
            /\ UNCHANGED inQ
       ELSE /\ inQ' = [inQ EXCEPT ![c] = <<Head(peerOut[c])>> \o @]
            /\ UNCHANGED readPc
  /\ UNCHANGED <<regVars, callVars, sessState, stopVars, resource, peerAlive,
                 stdinClosed, released, writePc, inClosed, outQ, outClosed,
                 peerIn, nSent>>
  /\ readLog' = [readLog EXCEPT ![c] = Append(@, Head(peerOut[c]))]
  /\ UNCHANGED <<sentLog, wroteLog, gotLog, lastReg, capVars>>

\* ------------------------------------------------------- transport bridge
\* read_task: a chunk was read from the resource; await read_stream.send(data)
PumpRead(c) ==
  /\ readPc[c] = "run"
  /\ peerOut[c] # << >>
  /\ inClosed[c] \/ Len(inQ[c]) < Cap
  /\ peerOut' = [peerOut EXCEPT ![c] = Tail(@)]
  /\ IF inClosed[c]
       THEN \* send raises; except logs; finally read_stream.aclose()
            /\ readPc' = [readPc EXCEPT ![c] = "done"]
            /\ UNCHANGED inQ
       ELSE /\ inQ' = [inQ EXCEPT ![c] = Append(@, Head(peerOut[c]))]
            /\ UNCHANGED readPc
  /\ UNCHANGED <<regVars, callVars, sessState, stopVars, resource, peerAlive,
                 stdinClosed, released, writePc, inClosed, outQ, outClosed,
                 peerIn, nSent>>
  /\ readLog' = [readLog EXCEPT ![c] = Append(@, Head(peerOut[c]))]
  /\ UNCHANGED <<sentLog, wroteLog, gotLog, lastReg, capVars>>

\* read_task: end-of-stream (stdio: empty read; websocket: recv raises
\* ConnectionClosed); finally read_stream.aclose()
PumpReadEnd(c) ==
  /\ UNCHANGED <<logVars, capVars>>
  /\ readPc[c] = "run"
  /\ peerOut[c] = << >>
  /\ ~peerAlive[c]
  /\ readPc' = [readPc EXCEPT ![c] = "done"]
  /\ inClosed' = [inClosed EXCEPT ![c] = TRUE]
  /\ UNCHANGED <<regVars, callVars, sessState, stopVars, resource, peerAlive,
                 stdinClosed, released, writePc, inQ, outQ, outClosed,
                 peerIn, peerOut, nSent>>

\* read_task: the read raised an I/O error; finally read_stream.aclose()
PumpReadError(c) ==
  /\ UNCHANGED <<logVars, capVars>>
  /\ readPc[c] = "run"
  /\ readPc' = [readPc EXCEPT ![c] = "done"]
  /\ inClosed' = [inClosed EXCEPT ![c] = TRUE]
  /\ UNCHANGED <<regVars, callVars, sessState, stopVars, resource, peerAlive,
                 stdinClosed, released, writePc, inQ, outQ, outClosed,
                 peerIn, peerOut, nSent>>

\* write_task's finally: process.stdin.close() / await websocket.close()
WriteFinally(c) ==
  /\ writePc' = [writePc EXCEPT ![c] = "done"]
  /\ IF resource[c] = "process"
       THEN /\ stdinClosed' = [stdinClosed EXCEPT ![c] = TRUE]
            /\ UNCHANGED <<released, peerAlive>>
       ELSE /\ released' = [released EXCEPT ![c] = @ + 1]
            /\ peerAlive' = [peerAlive EXCEPT ![c] = FALSE]
            /\ UNCHANGED stdinClosed

\* PumpWrite that takes the item from the channel and never writes it
PumpWrite_Drops(c) ==
  /\ writePc[c] = "run"
  /\ ~outClosed[c]
  /\ outQ[c] # << >>
  /\ outQ' = [outQ EXCEPT ![c] = Tail(@)]
  /\ UNCHANGED <<regVars, callVars, sessState, stopVars, resource, readPc,
                 inQ, inClosed, outClosed, peerOut, nSent, peerIn, writePc,
                 stdinClosed, released, peerAlive, logVars, capVars>>

\* write_task: an item was received from write_stream and is written to the
\* resource; a write to a dead resource raises
PumpWrite(c) ==
  /\ writePc[c] = "run"
  /\ ~outClosed[c]
  /\ outQ[c] # << >>
  /\ outQ' = [outQ EXCEPT ![c] = Tail(@)]
  /\ IF peerAlive[c]
       THEN /\ peerIn' = [peerIn EXCEPT ![c] = Append(@, Head(outQ[c]))]
            /\ UNCHANGED <<writePc, stdinClosed, released, peerAlive>>
       ELSE /\ WriteFinally(c)
            /\ UNCHANGED peerIn
  /\ UNCHANGED <<regVars, callVars, sessState, stopVars, resource, readPc,
                 inQ, inClosed, outClosed, peerOut, nSent>>
  /\ wroteLog' = [wroteLog EXCEPT ![c] =
                    IF peerAlive[c] THEN Append(@, Head(outQ[c])) ELSE @]
  /\ UNCHANGED <<sentLog, readLog, gotLog, lastReg, capVars>>

\* write_task: write_stream.receive() raises because the stream is closed
PumpWriteEnd(c) ==
  /\ UNCHANGED <<logVars, capVars>>
  /\ writePc[c] = "run"
  /\ outClosed[c]
  /\ WriteFinally(c)
  /\ UNCHANGED <<regVars, callVars, sessState, stopVars, resource, readPc,
                 inQ, inClosed, outQ, outClosed, peerIn, peerOut, nSent>>

\* ------------------------------------------------- the external resource
\* the child process exits / the remote end closes the connection
PeerExit(c) ==
  /\ UNCHANGED <<logVars, capVars>>
  /\ resource[c] # "none"
  /\ peerAlive[c]
  /\ peerAlive' = [peerAlive EXCEPT ![c] = FALSE]
  /\ UNCHANGED <<regVars, callVars, sessState, stopVars, resource, stdinClosed,
                 released, readPc, writePc, inQ, inClosed, outQ, outClosed,
                 peerIn, peerOut, nSent>>

\* the resource answers what it was sent (a child such as "cat")
PeerEcho(c) ==
  /\ UNCHANGED <<logVars, capVars>>
  /\ peerAlive[c]
  /\ peerIn[c] # << >>
  /\ peerIn' = [peerIn EXCEPT ![c] = Tail(@)]
  /\ peerOut' = [peerOut EXCEPT ![c] = Append(@, Head(peerIn[c]))]
  /\ UNCHANGED <<regVars, callVars, sessState, stopVars, resource, peerAlive,
                 stdinClosed, released, readPc, writePc, inQ, inClosed, outQ,
                 outClosed, nSent>>

\* ------------------------------------------- the caller's use of a session
\* the caller writes an item into the session's write side; at most limit
\* items are written in a run
SendItem(c, limit) ==
  /\ pc[c] = "body"
  /\ nSent < limit
  /\ ~outClosed[c]
  /\ Len(outQ[c]) < Cap
  /\ outQ' = [outQ EXCEPT ![c] = Append(@, nSent + 1)]
  /\ nSent' = nSent + 1
  /\ sentLog' = [sentLog EXCEPT ![c] = Append(@, nSent + 1)]
  /\ UNCHANGED <<wroteLog, readLog, gotLog, lastReg, capVars>>
  /\ UNCHANGED <<regVars, callVars, sessState, stopVars, resource, peerAlive,
                 stdinClosed, released, readPc, writePc, inQ, inClosed,
                 outClosed, peerIn, peerOut>>

BodySend(c) == SendItem(c, MaxMsgs)

BridgeSend(c) == SendItem(c, MaxChunks)

\* the caller takes an item from the session's read side
BodyRecv(c) ==
  /\ pc[c] = "body"
  /\ ~inClosed[c]
  /\ inQ[c] # << >>
  /\ inQ' = [inQ EXCEPT ![c] = Tail(@)]
  /\ UNCHANGED <<regVars, callVars, sessState, stopVars, resource, peerAlive,
                 stdinClosed, released, readPc, writePc, inClosed, outQ,
                 outClosed, peerIn, peerOut, nSent>>
  /\ gotLog' = [gotLog EXCEPT ![c] = Append(@, Head(inQ[c]))]
  /\ UNCHANGED <<sentLog, wroteLog, readLog, lastReg, capVars>>

\* ------------------------------------------------------------------ Next
\* What happens to the bridges, the resources and the stop_server tasks,
\* whoever opened the scopes.
Pumps ==
  \/ \E c \in Calls : PumpReadEnd(c)
  \/ \E c \in Calls : PumpReadError(c)
  \/ \E c \in Calls : PumpWriteEnd(c)
  \/ \E c \in Calls : PeerExit(c)

Stops ==
  \/ \E t \in Stoppers, n \in StopNames : StopBegin(t, n)
  \/ \E t \in Stoppers : StopFinish(t)

\* One caller; start_server and initialize_server, hooks, stop_server, and
\* the bridge with its traffic.
Next ==
  \/ \E c \in Solo, n \in Names : CallBegin(c, n, "start", NoHook)
  \/ \E c \in Solo, n \in Names, h \in HookIds \cup {NoHook} :
       CallBegin(c, n, "initialize", h)
  \/ \E c \in Calls : CreateFail(c)
  \/ \E c \in Calls, pipesOk \in BOOLEAN, factoryOk \in BOOLEAN :
       CreateDone(c, pipesOk, factoryOk)
  \/ \E c \in Calls, ok \in BOOLEAN, hookRaises \in BOOLEAN :
       InitializeDone(c, ok, hookRaises)
  \/ \E c \in Calls, exc \in BOOLEAN : ScopeExit(c, exc)
  \/ \E n \in HookNames, h \in HookIds : register_init_hook(n, h)
  \/ Stops
  \/ Pumps
  \/ \E c \in Calls : PumpRead(c)
  \/ \E c \in Calls : PumpWrite(c)
  \/ \E c \in Calls : PeerEcho(c)
  \/ \E c \in Calls : BodySend(c)
  \/ \E c \in Calls : BodyRecv(c)

Spec == Init /\ [][Next]_vars

\* Two callers whose start_server scopes overlap, and stop_server.
NextReg ==
  \/ \E c \in Calls, n \in Names : CallBegin(c, n, "start", NoHook)
  \/ \E c \in Calls : CreateFail(c)
  \/ \E c \in Calls, pipesOk \in BOOLEAN, factoryOk \in BOOLEAN :
       CreateDone(c, pipesOk, factoryOk)
  \/ \E c \in Calls, exc \in BOOLEAN : ScopeExit(c, exc)
  \/ Stops
  \/ Pumps

RegSpec == Init /\ [][NextReg]_vars

\* One start_server scope on a stdio or a websocket server whose resource
\* echoes, with stop_server and the traffic of up to MaxChunks items. The
\* event loop runs a pump task that can take a step, the resource echoes
\* what it was sent, and the caller takes what its session's read side holds.
BridgeNames == {"s", "w"}

NextBridge ==
  \/ \E c \in Solo, n \in BridgeNames : CallBegin(c, n, "start", NoHook)
  \/ \E c \in Calls : CreateFail(c)
  \/ \E c \in Calls, pipesOk \in BOOLEAN, factoryOk \in BOOLEAN :
       CreateDone(c, pipesOk, factoryOk)
  \/ \E c \in Calls, exc \in BOOLEAN : ScopeExit(c, exc)
  \/ Stops
  \/ Pumps
  \/ \E c \in Calls : PumpRead(c)
  \/ \E c \in Calls : PumpWrite(c)
  \/ \E c \in Calls : PeerEcho(c)
  \/ \E c \in Calls : BridgeSend(c)
  \/ \E c \in Calls : BodyRecv(c)

BridgeFair ==
  \A c \in Calls :
    /\ WF_vars(PumpRead(c))
    /\ WF_vars(PumpReadEnd(c))
    /\ WF_vars(PumpWrite(c))
    /\ WF_vars(PumpWriteEnd(c))
    /\ WF_vars(PeerEcho(c))
    /\ WF_vars(BodyRecv(c))

BridgeSpec == Init /\ [][NextBridge]_vars /\ BridgeFair

\* ============================================= dynamic capability server
storeVars == <<srvExists, assoc, toolName, prompts, resources>>
reqVars == <<reqPc, reqKind, reqName, reqArgs, reqArgVals, reqSnap, reqTool,
             resp, invoked>>
schemaVars == <<schemaIn, schemaOut>>
\* everything outside the backing store and the requests
connVars == <<connPc, connPath, connStatus, connBuilt, connRan>>
gateVars == <<srvActive, connVars>>
outerVars == <<registryVars, schemaVars, gateVars>>

\* create_mcp_server_from_tools(mcp_name, tool_ids, ...): refused when the
\* name is in use
create_mcp_server_from_tools(ids) ==
  /\ ~srvExists
  /\ srvExists' = TRUE
  /\ assoc' = ids
  /\ prompts' = << >>
  /\ resources' = << >>
  /\ UNCHANGED <<toolName, reqVars, outerVars>>

\* delete_mcp_server(mcp_name): the row goes, and with it what hangs on it
delete_mcp_server ==
  /\ srvExists
  /\ srvExists' = FALSE
  /\ assoc' = << >>
  /\ prompts' = << >>
  /\ resources' = << >>
  /\ UNCHANGED <<toolName, reqVars, outerVars>>

\* add_prompt_template(mcp_name, prompt_name, ...): updates the template of
\* that name or adds one
add_prompt_template(p) ==
  /\ srvExists
  /\ prompts' = IF \E i \in 1..Len(prompts) : prompts[i] = p
                  THEN prompts ELSE Append(prompts, p)
  /\ UNCHANGED <<srvExists, assoc, toolName, resources, reqVars, outerVars>>

\* add_resource(mcp_name, resource_uri, ...): updates the resource of that
\* uri or adds one
add_resource(u) ==
  /\ srvExists
  /\ resources' = IF \E i \in 1..Len(resources) : resources[i] = u
                    THEN resources ELSE Append(resources, u)
  /\ UNCHANGED <<srvExists, assoc, toolName, prompts, reqVars, outerVars>>

\* the tool service saves (v a name) or removes (v = Absent) the tool id
ResolverChange(id, v) ==
  /\ toolName[id] # v
  /\ toolName' = [toolName EXCEPT ![id] = v]
  /\ UNCHANGED <<srvExists, assoc, prompts, resources, reqVars, outerVars>>

\* the protocol run-loop hands a request to its handler
Request(r, kind, name, args) ==
  /\ reqPc[r] \in {"idle", "done"}
  /\ reqPc' = [reqPc EXCEPT ![r] = "query"]
  /\ reqKind' = [reqKind EXCEPT ![r] = kind]
  /\ reqName' = [reqName EXCEPT ![r] = name]
  /\ reqArgs' = [reqArgs EXCEPT ![r] = args]
  /\ reqArgVals' = [reqArgVals EXCEPT ![r] = NoArgs]
  /\ reqSnap' = [reqSnap EXCEPT ![r] = NoSnap]
  /\ reqTool' = [reqTool EXCEPT ![r] = Absent]
  /\ resp' = [resp EXCEPT ![r] = NoResp]
  /\ invoked' = [invoked EXCEPT ![r] = << >>]
  /\ UNCHANGED <<storeVars, outerVars>>

\* the stored prompts / resources of server_obj, in order
Stored(kind, q) == [i \in 1..Len(q) |-> Entry(kind, q[i], "", 0)]

\* what handle_list_prompts / handle_list_resources put in their list
\* before the loop over the tools: the synthesized entry and the stored ones
BaseEntries(kind, ps, rs) ==
  IF kind = "list_prompts"
    THEN <<EntryA("help", HelpName, "", << >>)>> \o Stored("prompt", ps)
    ELSE <<Entry("overview", OverviewUri, "", 0)>> \o Stored("resource", rs)

\* Query whose discovery handlers raise when the server is absent
Query_AbsentRaises(r) ==
  /\ reqPc[r] = "query"
  /\ IF ~srvExists
       THEN /\ reqPc' = [reqPc EXCEPT ![r] = "done"]
            /\ resp' = [resp EXCEPT ![r] =
                 CASE reqKind[r] = "call_tool" ->
                        Ok(<<Text("MCP server not found", "", 0)>>)
                   [] reqKind[r] \in Discovery -> Fault
                   [] OTHER -> FaultOf("MCP server not found")]
            /\ UNCHANGED reqSnap
       ELSE /\ reqSnap' = [reqSnap EXCEPT ![r] =
                 [exists |-> TRUE, tools |-> assoc, prompts |-> prompts,
                  resources |-> resources, active |-> srvActive]]
            /\ IF reqKind[r] \in {"list_prompts", "list_resources"}
                 THEN LET base == BaseEntries(reqKind[r], prompts, resources)
                      IN  IF assoc = << >>
                            THEN /\ reqPc' = [reqPc EXCEPT ![r] = "done"]
                                 /\ resp' = [resp EXCEPT ![r] = Ok(base)]
                            ELSE /\ reqPc' = [reqPc EXCEPT ![r] = "details"]
                                 /\ resp' = [resp EXCEPT ![r] =
                                      [status |-> "none", body |-> base]]
                 ELSE /\ reqPc' = [reqPc EXCEPT ![r] = "resolve"]
                      /\ UNCHANGED resp
  /\ UNCHANGED <<storeVars, reqKind, reqName, reqArgs, reqArgVals, reqTool, invoked,
                 outerVars>>

\* Query whose select also filters on MCPServer.is_active
Query_ActiveOnly(r) ==
  /\ reqPc[r] = "query"
  /\ IF ~(srvExists /\ srvActive)
       THEN /\ reqPc' = [reqPc EXCEPT ![r] = "done"]
            /\ resp' = [resp EXCEPT ![r] =
                 CASE reqKind[r] = "call_tool" ->
                        Ok(<<Text("MCP server not found", "", 0)>>)
                   [] reqKind[r] \in Discovery -> Ok(<< >>)
                   [] OTHER -> FaultOf("MCP server not found")]
            /\ UNCHANGED reqSnap
       ELSE /\ reqSnap' = [reqSnap EXCEPT ![r] =
                 [exists |-> TRUE, tools |-> assoc, prompts |-> prompts,
                  resources |-> resources, active |-> srvActive]]
            /\ IF reqKind[r] \in {"list_prompts", "list_resources"}
                 THEN LET base == BaseEntries(reqKind[r], prompts, resources)
                      IN  IF assoc = << >>
                            THEN /\ reqPc' = [reqPc EXCEPT ![r] = "done"]
                                 /\ resp' = [resp EXCEPT ![r] = Ok(base)]
                            ELSE /\ reqPc' = [reqPc EXCEPT ![r] = "details"]
                                 /\ resp' = [resp EXCEPT ![r] =
                                      [status |-> "none", body |-> base]]
                 ELSE /\ reqPc' = [reqPc EXCEPT ![r] = "resolve"]
                      /\ UNCHANGED resp
  /\ UNCHANGED <<storeVars, reqKind, reqName, reqArgs, reqArgVals, reqTool, invoked,
                 outerVars>>

\* Query that reuses the server row another request of the process loaded
Query_Cached(r) ==
  /\ reqPc[r] = "query"
  /\ IF ~srvExists
       THEN /\ reqPc' = [reqPc EXCEPT ![r] = "done"]
            /\ resp' = [resp EXCEPT ![r] =
                 CASE reqKind[r] = "call_tool" ->
                        Ok(<<Text("MCP server not found", "", 0)>>)
                   [] reqKind[r] \in Discovery -> Ok(<< >>)
                   [] OTHER -> FaultOf("MCP server not found")]
            /\ UNCHANGED reqSnap
       ELSE /\ reqSnap' = [reqSnap EXCEPT ![r] =
                 IF \E o \in Reqs \ {r} : reqSnap[o].exists
                   THEN reqSnap[CHOOSE o \in Reqs \ {r} : reqSnap[o].exists]
                   ELSE [exists |-> TRUE, tools |-> assoc,
                         prompts |-> prompts, resources |-> resources,
                         active |-> srvActive]]
            /\ IF reqKind[r] \in {"list_prompts", "list_resources"}
                 THEN LET base == BaseEntries(reqKind[r], prompts, resources)
                      IN  IF assoc = << >>
                            THEN /\ reqPc' = [reqPc EXCEPT ![r] = "done"]
                                 /\ resp' = [resp EXCEPT ![r] = Ok(base)]
                            ELSE /\ reqPc' = [reqPc EXCEPT ![r] = "details"]
                                 /\ resp' = [resp EXCEPT ![r] =
                                      [status |-> "none", body |-> base]]
                 ELSE /\ reqPc' = [reqPc EXCEPT ![r] = "resolve"]
                      /\ UNCHANGED resp
  /\ UNCHANGED <<storeVars, reqKind, reqName, reqArgs, reqArgVals, reqTool, invoked,
                 outerVars>>

\* the handler's query for the MCPServer row with its tools (and prompts,
\* resources). Absent: [] for the discovery handlers, a text for call_tool,
\* ValueError for get_prompt and read_resource. Present: list_prompts and
\* list_resources go on to their loops, which suspend only in get_tool; the
\* other handlers call get_tools_by_ids next
Query(r) ==
  /\ reqPc[r] = "query"
  /\ IF ~srvExists
       THEN /\ reqPc' = [reqPc EXCEPT ![r] = "done"]
            /\ resp' = [resp EXCEPT ![r] =
                 CASE reqKind[r] = "call_tool" ->
                        Ok(<<Text("MCP server not found", "", 0)>>)
                   [] reqKind[r] \in Discovery -> Ok(<< >>)
                   [] OTHER -> FaultOf("MCP server not found")]
            /\ UNCHANGED reqSnap
       ELSE /\ reqSnap' = [reqSnap EXCEPT ![r] =
                 [exists |-> TRUE, tools |-> assoc, prompts |-> prompts,
                  resources |-> resources, active |-> srvActive]]
            /\ IF reqKind[r] \in {"list_prompts", "list_resources"}
                 THEN LET base == BaseEntries(reqKind[r], prompts, resources)
                      IN  IF assoc = << >>
                            THEN /\ reqPc' = [reqPc EXCEPT ![r] = "done"]
                                 /\ resp' = [resp EXCEPT ![r] = Ok(base)]
                            ELSE /\ reqPc' = [reqPc EXCEPT ![r] = "details"]
                                 /\ resp' = [resp EXCEPT ![r] =
                                      [status |-> "none", body |-> base]]
                 ELSE /\ reqPc' = [reqPc EXCEPT ![r] = "resolve"]
                      /\ UNCHANGED resp
  /\ UNCHANGED <<storeVars, reqKind, reqName, reqArgs, reqArgVals, reqTool, invoked,
                 outerVars>>

\* handle_list_tools' loop that emits an entry for every associated id
ToolEntries_NoDrop(q, tn) ==
  [i \in 1..Len(q) |-> Entry("tool", tn[q[i]], q[i], 0)]

\* handle_list_tools' loop over server_obj.tools: ids missing from tool_map
\* are skipped
ToolEntries(q, tn) ==
  LET kept == SelectSeq(q, LAMBDA id : tn[id] # Absent)
  IN  [i \in 1..Len(kept) |-> Entry("tool", tn[kept[i]], kept[i], 0)]

\* handle_call_tool's loop without the break: the last associated tool
\* that carries the name wins
FirstMatch_Last(q, tn, name) ==
  LET hits == SelectSeq(q, LAMBDA id : tn[id] # Absent /\ tn[id] = name)
  IN  IF hits = << >> THEN Absent ELSE hits[Len(hits)]

\* handle_call_tool's loop: the first associated tool that is in tool_map
\* and carries the name; Absent when there is none
FirstMatch(q, tn, name) ==
  LET hits == SelectSeq(q, LAMBDA id : tn[id] # Absent /\ tn[id] = name)
  IN  IF hits = << >> THEN Absent ELSE Head(hits)

\* get_tools_by_ids(tool_ids, ...) returned, and the handler's loop ran
Resolve(r) ==
  /\ reqPc[r] = "resolve"
  /\ reqKind[r] \in {"list_tools", "call_tool"}
  /\ IF reqKind[r] = "list_tools"
       THEN /\ resp' = [resp EXCEPT ![r] =
                 Ok(ToolEntries(reqSnap[r].tools, toolName))]
            /\ reqPc' = [reqPc EXCEPT ![r] = "done"]
            /\ UNCHANGED reqTool
       ELSE LET m == FirstMatch(reqSnap[r].tools, toolName, reqName[r])
            IN  IF m = Absent
                  THEN /\ resp' = [resp EXCEPT ![r] =
                            Ok(<<Text("Unknown tool", reqName[r], 0)>>)]
                       /\ reqPc' = [reqPc EXCEPT ![r] = "done"]
                       /\ UNCHANGED reqTool
                  ELSE /\ reqTool' = [reqTool EXCEPT ![r] = m]
                       /\ reqPc' = [reqPc EXCEPT ![r] = "invoke"]
                       /\ UNCHANGED resp
  /\ UNCHANGED <<storeVars, reqKind, reqName, reqArgs, reqArgVals, reqSnap, invoked,
                 outerVars>>

\* the values the delegate's result stream yields before the handler stops
\* reading it: chunk i is the value i; a request that raises yields nothing
StreamOf(raises, n) ==
  IF raises THEN << >> ELSE [i \in 1..n |-> i]

\* handle_call_tool sending the arguments as a JSON body whatever the method
Placement_AlwaysBody(id, args) ==
  IF ~args THEN "none" ELSE "body"

\* where handle_call_tool puts the arguments
Placement(id, args) ==
  IF ~args THEN "none" ELSE IF MethodOf[id] = "GET" THEN "query" ELSE "body"

\* Invoke without the try/except around the request
Invoke_NoCatch(r, raises, n) ==
  /\ reqPc[r] = "invoke"
  /\ invoked' = [invoked EXCEPT ![r] =
       Append(@, [id |-> reqTool[r],
                  place |-> Placement(reqTool[r], reqArgs[r]),
                  raised |-> raises,
                  stream |-> StreamOf(raises, n)])]
  /\ resp' = [resp EXCEPT ![r] =
       IF raises THEN Fault ELSE Ok(<<Text("result", reqTool[r], n)>>)]
  /\ reqPc' = [reqPc EXCEPT ![r] = "done"]
  /\ UNCHANGED <<storeVars, reqKind, reqName, reqArgs, reqArgVals, reqSnap, reqTool,
                 outerVars>>

\* Invoke that issues the request again when the first attempt raised
Invoke_Retry(r, raises, n) ==
  /\ reqPc[r] = "invoke"
  /\ invoked' = [invoked EXCEPT ![r] =
       LET call == [id |-> reqTool[r],
                    place |-> Placement(reqTool[r], reqArgs[r]),
                    raised |-> raises,
                    stream |-> StreamOf(raises, n)]
       IN  IF raises THEN @ \o <<call, call>> ELSE Append(@, call)]
  /\ resp' = [resp EXCEPT ![r] =
       IF raises THEN Ok(<<Text("Error calling tool", reqTool[r], 0)>>)
                 ELSE Ok(<<Text("result", reqTool[r], n)>>)]
  /\ reqPc' = [reqPc EXCEPT ![r] = "done"]
  /\ UNCHANGED <<storeVars, reqKind, reqName, reqArgs, reqArgVals, reqSnap, reqTool,
                 outerVars>>

\* handle_call_tool's try block: async_client.request(...) is called once,
\* its stream yields n chunks (chunk i is the value i, "" is 0) and the last
\* one is returned; an exception becomes a text
Invoke(r, raises, n) ==
  /\ reqPc[r] = "invoke"
  /\ invoked' = [invoked EXCEPT ![r] =
       Append(@, [id |-> reqTool[r],
                  place |-> Placement(reqTool[r], reqArgs[r]),
                  raised |-> raises,
                  stream |-> StreamOf(raises, n)])]
  /\ resp' = [resp EXCEPT ![r] =
       IF raises THEN Ok(<<Text("Error calling tool", reqTool[r], 0)>>)
                 ELSE Ok(<<Text("result", reqTool[r], n)>>)]
  /\ reqPc' = [reqPc EXCEPT ![r] = "done"]
  /\ UNCHANGED <<storeVars, reqKind, reqName, reqArgs, reqArgVals, reqSnap, reqTool,
                 outerVars>>

\* the argument list of a use-<tool> prompt: "body" when the tool takes a
\* JSON body, else the names of the required query, path, header parameters
PromptArgsOf(parameters) ==
  IF parameters.body # NoBody THEN <<"body">>
  ELSE LET q == AllParams(parameters)
           req == SelectSeq(q, LAMBDA x : x.required)
       IN  [i \in 1..Len(req) |-> req[i].name]

\* the per-tool entry handle_list_prompts / handle_list_resources build from
\* tool_data = get_tool(...)
PerToolEntry(kind, id, tn) ==
  IF kind = "list_prompts"
    THEN EntryA("use", UseOf[tn[id]], id, PromptArgsOf(ParamsOf[id]))
    ELSE Entry("tooldoc", DocOf[tn[id]], id, 0)

\* one round of the loop over server_obj.tools in handle_list_prompts /
\* handle_list_resources: get_tool(tool.id) returned the tool's current
\* definition and the entry is appended; a tool that is gone leaves no
\* tool_data to read the name from, and the handler raises
Details(r) ==
  /\ reqPc[r] = "details"
  /\ LET q == reqSnap[r].tools
         base == Len(BaseEntries(reqKind[r], reqSnap[r].prompts,
                                 reqSnap[r].resources))
         i == Len(resp[r].body) - base + 1
     IN  IF toolName[q[i]] = Absent
           THEN /\ resp' = [resp EXCEPT ![r] = Fault]
                /\ reqPc' = [reqPc EXCEPT ![r] = "done"]
           ELSE /\ resp' = [resp EXCEPT ![r] =
                     [status |-> IF i = Len(q) THEN "ok" ELSE "none",
                      body |-> Append(resp[r].body,
                                      PerToolEntry(reqKind[r], q[i], toolName))]]
                /\ reqPc' = [reqPc EXCEPT ![r] =
                     IF i = Len(q) THEN "done" ELSE "details"]
  /\ UNCHANGED <<storeVars, reqKind, reqName, reqArgs, reqArgVals, reqSnap, reqTool,
                 invoked, outerVars>>

\* ---- get_prompt
\* the protocol run-loop hands a get_prompt request to its handler
GetPromptRequest(r, name, argv) ==
  /\ reqPc[r] \in {"idle", "done"}
  /\ reqPc' = [reqPc EXCEPT ![r] = "query"]
  /\ reqKind' = [reqKind EXCEPT ![r] = "get_prompt"]
  /\ reqName' = [reqName EXCEPT ![r] = name]
  /\ reqArgs' = [reqArgs EXCEPT ![r] = argv # NoArgs]
  /\ reqArgVals' = [reqArgVals EXCEPT ![r] = argv]
  /\ reqSnap' = [reqSnap EXCEPT ![r] = NoSnap]
  /\ reqTool' = [reqTool EXCEPT ![r] = Absent]
  /\ resp' = [resp EXCEPT ![r] = NoResp]
  /\ invoked' = [invoked EXCEPT ![r] = << >>]
  /\ UNCHANGED <<storeVars, outerVars>>

\* the elements of a sequence
Range(q) == {q[i] : i \in 1..Len(q)}

\* PromptRoute that looks for the synthesized prompts before the stored ones
PromptRoute_SynthesizedFirst(name, stored) ==
  IF name = HelpName THEN "help"
  ELSE IF HasUsePrefix(name) THEN "use"
  ELSE IF name \in Range(stored) THEN "stored"
  ELSE "none"

\* which branch of handle_get_prompt answers name: the loop over
\* server_obj.prompts, the help prompt, the use- prompts, or none
PromptRoute(name, stored) ==
  IF name \in Range(stored) THEN "stored"
  ELSE IF name = HelpName THEN "help"
  ELSE IF HasUsePrefix(name) THEN "use"
  ELSE "none"

\* Format that leaves a placeholder without argument in the text
Format_Partial(t, argv) ==
  [ok |-> TRUE,
   text |-> [i \in 1..Len(t) |->
               IF t[i].ph /\ t[i].s \in DOMAIN argv THEN argv[t[i].s]
               ELSE t[i].s]]

\* prompt.template.format(**(arguments or {})): every placeholder is replaced
\* by the argument of its name; KeyError when one is not supplied
Format(t, argv) ==
  IF \A i \in 1..Len(t) : t[i].ph => t[i].s \in DOMAIN argv
    THEN [ok |-> TRUE,
          text |-> [i \in 1..Len(t) |->
                      IF t[i].ph THEN argv[t[i].s] ELSE t[i].s]]
    ELSE [ok |-> FALSE, text |-> << >>]

\* names of the tools of q that are in tool_map, in order
ResolvedNames(q, tn) ==
  LET kept == SelectSeq(q, LAMBDA id : tn[id] # Absent)
  IN  [i \in 1..Len(kept) |-> tn[kept[i]]]

\* HelpResult that fails on a tool missing from tool_map
HelpResult_Strict(q, tn) ==
  IF \E i \in 1..Len(q) : tn[q[i]] = Absent
    THEN FaultOf("Unknown tool")
    ELSE Ok(<<EntryA("help", HelpName, "", ResolvedNames(q, tn))>>)

\* the help prompt: its text lists the tools found in tool_map
HelpResult(q, tn) == Ok(<<EntryA("help", HelpName, "", ResolvedNames(q, tn))>>)

\* handle_get_prompt after get_tools_by_ids returned
GetPrompt(r) ==
  /\ reqPc[r] = "resolve"
  /\ reqKind[r] = "get_prompt"
  /\ LET name == reqName[r]
         route == PromptRoute(name, reqSnap[r].prompts)
     IN  resp' = [resp EXCEPT ![r] =
           CASE route = "stored" ->
                  LET f == Format(TemplateOf[name], reqArgVals[r])
                  IN  IF f.ok THEN Ok(<<EntryA("stored", name, "", f.text)>>)
                      ELSE FaultOf("KeyError")
             [] route = "help" -> HelpResult(reqSnap[r].tools, toolName)
             [] route = "use" ->
                  LET m == FirstMatch(reqSnap[r].tools, toolName, StripUse(name))
                  IN  IF m = Absent THEN FaultOf("Unknown tool")
                      ELSE Ok(<<EntryA("use", name, m, << >>)>>)
             [] OTHER -> FaultOf("Unknown prompt")]
  /\ reqPc' = [reqPc EXCEPT ![r] = "done"]
  /\ UNCHANGED <<storeVars, reqKind, reqName, reqArgs, reqArgVals, reqSnap, reqTool,
                 invoked, outerVars>>

\* ---- read_resource
\* which branch of handle_read_resource answers uri: the loop over
\* server_obj.resources, the overview, the per-tool documentation, or none
ResourceRoute(uri, stored) ==
  IF uri \in Range(stored) THEN "stored"
  ELSE IF StartsWithOverview(uri) THEN "overview"
  ELSE IF StartsWithTools(uri) THEN "tool"
  ELSE "none"

\* handle_read_resource after get_tools_by_ids returned
ReadResource(r) ==
  /\ reqPc[r] = "resolve"
  /\ reqKind[r] = "read_resource"
  /\ LET uri == reqName[r]
         route == ResourceRoute(uri, reqSnap[r].resources)
     IN  resp' = [resp EXCEPT ![r] =
           CASE route = "stored" -> Ok(<<Entry("stored", uri, "", 0)>>)
             [] route = "overview" ->
                  Ok(<<EntryA("overview", uri, "",
                              ResolvedNames(reqSnap[r].tools, toolName))>>)
             [] route = "tool" ->
                  LET m == FirstMatch(reqSnap[r].tools, toolName, LastSegment(uri))
                  IN  IF m = Absent THEN FaultOf("Unknown tool")
                      ELSE Ok(<<Entry("tooldoc", uri, m, 0)>>)
             [] OTHER -> FaultOf("Unknown resource")]
  /\ reqPc' = [reqPc EXCEPT ![r] = "done"]
  /\ UNCHANGED <<storeVars, reqKind, reqName, reqArgs, reqArgVals, reqSnap, reqTool,
                 invoked, outerVars>>

NextCap ==
  \/ \E ids \in AssocLists : create_mcp_server_from_tools(ids)
  \/ delete_mcp_server
  \/ \E p \in PromptNames : add_prompt_template(p)
  \/ \E u \in ResourceUris : add_resource(u)
  \/ \E id \in ToolIds, v \in ToolNames \cup {Absent} : ResolverChange(id, v)
  \/ \E r \in SoloReq, kind \in Discovery : Request(r, kind, "", FALSE)
  \/ \E r \in SoloReq, name \in ReqNames, args \in BOOLEAN :
       Request(r, "call_tool", name, args)
  \/ \E r \in SoloReq : Query(r)
  \/ \E r \in SoloReq : Resolve(r)
  \/ \E r \in SoloReq, raises \in BOOLEAN, n \in 0..MaxStream : Invoke(r, raises, n)
  \/ \E r \in SoloReq : Details(r)

CapSpec == Init /\ [][NextCap]_vars

\* ---- prompts of one virtual server: stored templates that may carry the
\* names of the synthesized prompts, tools A and B, one connection
PromptAssoc == {<< >>, <<"A">>, <<"B", "A">>}

NextPrompt ==
  \/ \E ids \in PromptAssoc : create_mcp_server_from_tools(ids)
  \/ \E p \in StoredPromptNames : add_prompt_template(p)
  \/ \E id \in ToolIds, v \in {"ta", Absent} : ResolverChange(id, v)
  \/ \E r \in SoloReq, name \in GetNames, argv \in ArgChoices :
       GetPromptRequest(r, name, argv)
  \/ \E r \in SoloReq : Query(r)
  \/ \E r \in SoloReq : GetPrompt(r)

PromptSpec == Init /\ [][NextPrompt]_vars

\* ---- resources of one virtual server, one connection
NextRes ==
  \/ \E ids \in PromptAssoc : create_mcp_server_from_tools(ids)
  \/ delete_mcp_server
  \/ \E u \in StoredUris : add_resource(u)
  \/ \E id \in ToolIds, v \in {"ta", Absent} : ResolverChange(id, v)
  \/ \E r \in SoloReq : Request(r, "list_resources", "", FALSE)
  \/ \E r \in SoloReq, u \in ReadUris : Request(r, "read_resource", u, FALSE)
  \/ \E r \in SoloReq : Query(r)
  \/ \E r \in SoloReq : ReadResource(r)
  \/ \E r \in SoloReq : Details(r)

ResSpec == Init /\ [][NextRes]_vars

\* ---- two capability servers built for the same name, each with its own
\* list_tools requests
NextShare ==
  \/ \E ids \in AssocLists : create_mcp_server_from_tools(ids)
  \/ delete_mcp_server
  \/ \E id \in ToolIds, v \in ToolNames \cup {Absent} : ResolverChange(id, v)
  \/ \E r \in Reqs : Request(r, "list_tools", "", FALSE)
  \/ \E r \in Reqs : Query(r)
  \/ \E r \in Reqs : Resolve(r)

ShareSpec == Init /\ [][NextShare]_vars

\* ---- one virtual server whose tools may carry a name with a slash, and
\* the three invocation requests
AgreeNames == {"ta", SlashName}
AgreePrompts == {HelpName, "p1", "use-ta", "use-v1/ta", "other"}
AgreeUris == {OverviewUri, "u1", "doc://N/tools/ta", DocDeep, "other"}

NextAgree ==
  \/ \E ids \in PromptAssoc : create_mcp_server_from_tools(ids)
  \/ add_prompt_template("p1")
  \/ add_resource("u1")
  \/ \E id \in ToolIds, v \in AgreeNames \cup {Absent} : ResolverChange(id, v)
  \/ \E r \in SoloReq, name \in AgreeNames : Request(r, "call_tool", name, FALSE)
  \/ \E r \in SoloReq, name \in AgreePrompts : GetPromptRequest(r, name, NoArgs)
  \/ \E r \in SoloReq, u \in AgreeUris : Request(r, "read_resource", u, FALSE)
  \/ \E r \in SoloReq : Query(r)
  \/ \E r \in SoloReq : Resolve(r)
  \/ \E r \in SoloReq, raises \in BOOLEAN : Invoke(r, raises, 1)
  \/ \E r \in SoloReq : GetPrompt(r)
  \/ \E r \in SoloReq : ReadResource(r)

AgreeSpec == Init /\ [][NextAgree]_vars

\* ---- gateway dispatcher (get_main_app.dynamic_mcp_handler)
\* the MCPServer row of the store is named McpName
McpName == "N"
\* scope["path"] of the inbound connections
Paths == {"", "/mcp", "/mcp/", "/mcp/N", "/mcp/M", "/mcp/N/sse"}

\* path.split('/')
PathParts(path) ==
  CASE path = "" -> <<"">>
    [] path = "/mcp" -> <<"", "mcp">>
    [] path = "/mcp/" -> <<"", "mcp", "">>
    [] path = "/mcp/N" -> <<"", "mcp", "N">>
    [] path = "/mcp/M" -> <<"", "mcp", "M">>
    [] path = "/mcp/N/sse" -> <<"", "mcp", "N", "sse">>

\* select(MCPServer).where(name == mcp_name, is_active == True) finds a row
ActiveRow(name) == name = McpName /\ srvExists /\ srvActive

\* the row's is_active flag is set or cleared
SetActive(b) ==
  /\ srvExists
  /\ srvActive # b
  /\ srvActive' = b
  /\ UNCHANGED <<storeVars, reqVars, registryVars, schemaVars, connVars>>

\* dynamic_mcp_handler is entered: fewer than three path parts is answered
\* with 400
Connect(path) ==
  /\ connPc \in {"idle", "closed"}
  /\ \A r \in Reqs : reqPc[r] \in {"idle", "done"}
  /\ connPath' = path
  /\ connBuilt' = 0
  /\ connRan' = FALSE
  /\ IF Len(PathParts(path)) < 3
       THEN connStatus' = 400 /\ connPc' = "closed"
       ELSE connStatus' = 0 /\ connPc' = "check"
  /\ UNCHANGED <<storeVars, reqVars, registryVars, schemaVars, srvActive>>

\* Accept that looks the row up by name only
Accept_NameOnly ==
  /\ connPc = "check"
  /\ IF PathParts(connPath)[3] = McpName /\ srvExists
       THEN connStatus' = 0 /\ connPc' = "build"
       ELSE connStatus' = 404 /\ connPc' = "closed"
  /\ UNCHANGED <<storeVars, reqVars, registryVars, schemaVars, srvActive,
                 connPath, connBuilt, connRan>>

\* the select for the active row named path_parts[2] returned: 404 when
\* there is none
Accept ==
  /\ connPc = "check"
  /\ IF ActiveRow(PathParts(connPath)[3])
       THEN connStatus' = 0 /\ connPc' = "build"
       ELSE connStatus' = 404 /\ connPc' = "closed"
  /\ UNCHANGED <<storeVars, reqVars, registryVars, schemaVars, srvActive,
                 connPath, connBuilt, connRan>>

\* _create_server_instance returned, the SSE transport is connected and
\* server.run is started
Build ==
  /\ connPc = "build"
  /\ connBuilt' = connBuilt + 1
  /\ connRan' = TRUE
  /\ connStatus' = 200
  /\ connPc' = "open"
  /\ UNCHANGED <<storeVars, reqVars, registryVars, schemaVars, srvActive,
                 connPath>>

\* the client disconnects between two requests: server.run returns
Disconnect ==
  /\ connPc = "open"
  /\ \A r \in Reqs : reqPc[r] \in {"idle", "done"}
  /\ connPc' = "closed"
  /\ UNCHANGED <<storeVars, reqVars, registryVars, schemaVars, srvActive,
                 connPath, connStatus, connBuilt, connRan>>

\* the run-loop of the open connection receives a request
ConnRequest(r, kind) ==
  /\ connPc = "open"
  /\ Request(r, kind, "", FALSE)

NextGate ==
  \/ \E ids \in PromptAssoc : create_mcp_server_from_tools(ids)
  \/ delete_mcp_server
  \/ \E b \in BOOLEAN : SetActive(b)
  \/ \E id \in ToolIds, v \in {"ta", Absent} : ResolverChange(id, v)
  \/ \E path \in Paths : Connect(path)
  \/ Accept
  \/ Build
  \/ Disconnect
  \/ \E r \in SoloReq : ConnRequest(r, "list_tools")
  \/ \E r \in SoloReq : Query(r)
  \/ \E r \in SoloReq : Resolve(r)

GateSpec == Init /\ [][NextGate]_vars

\* ------------------------------------------------------ schema conversion
\* handle_list_tools calls _convert_parameters_to_schema(tool.parameters)
Convert ==
  /\ schemaOut = NoSchema
  /\ schemaOut' = ConvertParametersToSchema(schemaIn)
  /\ UNCHANGED <<schemaIn, storeVars, reqVars, registryVars, gateVars>>

SchemaSpec == SchemaInit /\ [][Convert]_vars

\* ==================================================== properties checked
\* a scope that yielded a session (start_server succeeded)
Started(c) == \E i \in 1..Len(trace[c]) : trace[c][i] = "yielded"
\* control has left a scope that had yielded
Left(c) == Started(c) /\ pc[c] \in {"exited", "raised"}
\* both pump tasks of the bridge have ended
PumpsEnded(c) == readPc[c] = "done" /\ writePc[c] = "done"

\* C1: after a successful start_server(name), then stop_server(name), then
\* the exit of the scope, and once both pump tasks have ended, the external
\* resource has been released exactly once.
C1_ReleasedOnceAfterStop ==
  \A c \in Calls :
    (Left(c) /\ sessState[c] = "closed" /\ PumpsEnded(c)) => released[c] = 1

\* C2: once the pump loops of a bridge have ended (each on end-of-stream, a
\* closed channel or an error), the external resource has been released
\* exactly once.
C2_ReleasedOnceWhenPumpsEnd ==
  \A c \in Calls : PumpsEnded(c) => released[c] = 1

\* C3: once control has left a start_server scope, normally or by an
\* exception of the caller, the session is out of the active-session table
\* and is closed.
C3_ClosedOnScopeExit ==
  \A c \in Calls :
    Left(c) => /\ active_sessions[cname[c]] # c
               /\ sessState[c] = "closed"

\* C4: when start_server records a session under a name that already has an
\* active session, that previous session has been stopped (closed) before.
C4_PreviousStoppedBeforeRecord ==
  [][\A n \in Names :
       (/\ active_sessions[n] # None
        /\ active_sessions'[n] # None
        /\ active_sessions'[n] # active_sessions[n])
       => sessState[active_sessions[n]] = "closed"]_vars

\* C5: start_server with a name that has no configuration fails with the
\* not-found error, creates no resource and no pump task, and leaves the
\* active-session table as it was.
C5_UnknownNameNotFound ==
  [][\A c \in Calls :
       (pc[c] = "idle" /\ pc'[c] # "idle" /\ cname'[c] \notin DOMAIN Registry)
       => /\ pc'[c] = "raised"
          /\ err'[c] = "NotFound"
          /\ active_sessions' = active_sessions
          /\ resource' = resource
          /\ readPc' = readPc
          /\ writePc' = writePc
          /\ sessState' = sessState]_vars

\* C5 witness: a call with an unknown name has failed while another name's
\* session is active.
C5_Witness ==
  \E c \in Calls :
    /\ err[c] = "NotFound"
    /\ \E n \in Names : active_sessions[n] # None

\* C6: when start_server fails after the external resource was created, the
\* resource has been released by the time the error reaches the caller.
C6_ReleasedOnStartFailure ==
  \A c \in Calls :
    (pc[c] = "raised" /\ ~Started(c) /\ resource[c] # "none")
    => released[c] >= 1

\* C7: stop_server(name) with an active session closes that session and,
\* when it completes, the name has no entry in the table; with no active
\* session it completes without raising and changes nothing else.
C7_StopServer ==
  [][\A t \in Stoppers :
       /\ (stopPc[t] = "idle" /\ stopPc'[t] # "idle")
          => IF active_sessions[stopName'[t]] = None
               THEN /\ stopPc'[t] = "done"
                    /\ UNCHANGED <<regVars, callVars, sessState, bridgeVars>>
               ELSE /\ stopSess'[t] = active_sessions[stopName'[t]]
                    /\ sessState'[stopSess'[t]] = "closed"
                    /\ inClosed'[stopSess'[t]]
                    /\ outClosed'[stopSess'[t]]
       /\ (stopPc[t] = "closing" /\ stopPc'[t] # "closing")
          => /\ active_sessions'[stopName[t]] = None
             /\ \A n \in Names : active_sessions'[n] # stopSess[t]
             /\ sessState'[stopSess[t]] = "closed"]_vars

\* C7 witness: a stop_server that found an active session has completed.
C7_Witness ==
  \E t \in Stoppers :
    /\ stopPc[t] = "done"
    /\ stopSess[t] # None
    /\ sessState[stopSess[t]] = "closed"

\* C8: a caller of initialize_server holds the session only after, in this
\* order, the session was recorded active, session.initialize() completed,
\* and the hook (when one is selected) was invoked with that session and the
\* auth settings of that server.
C8_InitializeOrder ==
  \A c \in Calls :
    (ckind[c] = "initialize" /\ Started(c))
    => /\ \E rest \in {<< >>, <<"left">>} :
            \/ trace[c] = <<"recorded", "initialized", "hook", "yielded">> \o rest
            \/ /\ trace[c] = <<"recorded", "initialized", "yielded">> \o rest
               /\ chook[c] = NoHook
       /\ sessState[c] \in {"ready", "closed"}
       /\ Len(hookUsed[c]) =
            Cardinality({i \in 1..Len(trace[c]) : trace[c][i] = "hook"})
       /\ \A i \in 1..Len(hookUsed[c]) :
            hookUsed[c][i].session = c /\ hookUsed[c][i].auth = cname[c]

\* C8 witness: a caller of initialize_server is in its body after a hook ran.
C8_Witness ==
  \E c \in Calls :
    /\ ckind[c] = "initialize"
    /\ pc[c] = "body"
    /\ Len(hookUsed[c]) = 1

\* C9: when the handshake of initialize_server completes, the explicit hook
\* when one was passed, otherwise the hook registered for the name, is
\* invoked, once; with neither, none is invoked and the caller gets the
\* session. No hook is ever invoked a second time or before the handshake.
C9_OneHookOnce ==
  /\ [](\A c \in Calls :
          /\ Len(hookUsed[c]) <= 1
          /\ Len(hookUsed[c]) = 1 => sessState[c] \in {"ready", "closed"})
  /\ [][\A c \in Calls :
          (pc[c] = "initializing" /\ sessState'[c] = "ready")
          => IF chook[c] # NoHook
               THEN /\ Len(hookUsed'[c]) = 1
                    /\ hookUsed'[c][1].hook = chook[c]
             ELSE IF init_hooks[cname[c]] # NoHook
               THEN /\ Len(hookUsed'[c]) = 1
                    /\ hookUsed'[c][1].hook = init_hooks[cname[c]]
             ELSE /\ hookUsed'[c] = << >>
                  /\ pc'[c] = "body"
                  /\ err'[c] = ""]_vars

\* C9 witness: the explicit hook ran although another one is registered.
C9_Witness ==
  \E c \in Calls :
    /\ Len(hookUsed[c]) = 1
    /\ hookUsed[c][1].hook = chook[c]
    /\ init_hooks[cname[c]] \notin {NoHook, chook[c]}

\* C10: when the init hook raises, the caller gets the initialization
\* error, its body is never entered, and the session is out of the
\* active-session table and closed.
C10_HookFailureTearsDown ==
  \A c \in Calls :
    (pc[c] = "raised" /\ trace[c] = <<"recorded", "initialized", "hook">>)
    => /\ err[c] = InitError
       /\ ~Started(c)
       /\ active_sessions[cname[c]] # c
       /\ sessState[c] = "closed"

\* -------------------------------------------------------------- bridge
\* the session of call c is the one listed under its name
Listed(c) == pc[c] # "idle" /\ active_sessions[cname[c]] = c
\* one pump task of the bridge has ended
APumpEnded(c) == readPc[c] = "done" \/ writePc[c] = "done"

\* C11: once a pump loop of a listed session has ended (I/O error or end of
\* stream), the session is eventually closed and no longer listed, whether
\* or not stop_server is called.
C11_DestroyedOnBridgeFailure ==
  \A c \in Calls :
    (Listed(c) /\ APumpEnded(c))
      ~> (sessState[c] = "closed" /\ ~Listed(c))

\* C12: once one pump loop of a bridge has stopped, the other pump loop
\* eventually stops too.
C12_OtherPumpStops ==
  \A c \in Calls : APumpEnded(c) ~> PumpsEnded(c)

IsPrefix(a, b) == Len(a) <= Len(b) /\ SubSeq(b, 1, Len(a)) = a

\* C13: in each direction of a bridge the order is preserved. While the
\* inbound direction is open, what the caller received followed by what the
\* channel holds is exactly what the read pump read, in that order; the
\* caller never receives anything else than a prefix of it. While the write
\* pump runs, what it wrote followed by what the channel holds is exactly
\* what was sent, in that order; what was written is always a prefix of it.
C13_OrderPreserved ==
  \A c \in Calls :
    /\ IsPrefix(gotLog[c], readLog[c])
    /\ ~inClosed[c] => gotLog[c] \o inQ[c] = readLog[c]
    /\ IsPrefix(wroteLog[c], sentLog[c])
    /\ writePc[c] = "run" => wroteLog[c] \o outQ[c] = sentLog[c]

\* two items went through both directions of one bridge
C13_Witness ==
  \E c \in Calls :
    /\ Len(wroteLog[c]) >= 2 /\ wroteLog[c] = sentLog[c]
    /\ Len(gotLog[c]) >= 2 /\ gotLog[c] = readLog[c]

InSeq(x, q) == \E i \in 1..Len(q) : q[i] = x

\* the scenario of the echo round trip has ended: the session was closed
\* (stop_server), the read side failed, the child exited, or the caller
\* left the scope and reads no more
Disrupted(c) ==
  inClosed[c] \/ outClosed[c] \/ ~peerAlive[c] \/ pc[c] # "body"

\* C14: with a stdio server whose child echoes, every item written into the
\* write side of a started session is eventually yielded on its read side,
\* unless the session is stopped, the child exits, the stream fails or the
\* caller leaves meanwhile.
C14_EchoEventuallyRead ==
  \A c \in Calls : \A i \in 1..MaxChunks :
    (resource[c] = "process" /\ InSeq(i, sentLog[c]))
      ~> (InSeq(i, gotLog[c]) \/ Disrupted(c))

\* every item sent to an echoing child came back to the caller
C14_Witness ==
  \E c \in Calls :
    /\ resource[c] = "process" /\ ~Disrupted(c)
    /\ sentLog[c] # << >> /\ gotLog[c] = sentLog[c]

\* ------------------------------------------------------ handshake state
Rank(st) ==
  CASE st = "none" -> 0
    [] st = "unstarted" -> 1
    [] st = "handshaking" -> 2
    [] st = "ready" -> 3
    [] st = "closed" -> 4

C16_LastWriteWins ==
  /\ [](\A n \in Names : init_hooks[n] = lastReg[n])
  /\ [][init_hooks' # init_hooks =>
          /\ \E n \in Names, h \in HookIds :
               init_hooks' = [init_hooks EXCEPT ![n] = h]
          /\ active_sessions' = active_sessions]_vars

\* a registered hook was used by an initialize_server call, another hook
\* has replaced it under the same name, and the other name kept its own
C16_Witness ==
  \E c \in Calls : \E n \in HookNames \ {cname[c]} :
    /\ chook[c] = NoHook /\ Len(hookUsed[c]) = 1
    /\ init_hooks[cname[c]] \in HookIds
    /\ init_hooks[cname[c]] # hookUsed[c][1].hook
    /\ init_hooks[n] \in HookIds

\* ------------------------------------------------------------- transport
Unsupported(n) ==
  n \in DOMAIN Registry /\ Registry[n].transport \notin {"stdio", "websocket"}

\* C17: start_server for a configured name whose transport is neither stdio
\* nor websocket fails with the unsupported-transport error, creates no
\* external resource and leaves no entry for the name in the table.
C17_UnsupportedTransport ==
  /\ [][\A c \in Calls :
          (pc[c] = "idle" /\ pc'[c] # "idle" /\ Unsupported(cname'[c])) =>
            /\ pc'[c] = "raised"
            /\ err'[c] = "UnsupportedTransport"
            /\ resource'[c] = "none"
            /\ active_sessions'[cname'[c]] = None]_vars
  /\ [](\A c \in Calls :
          (pc[c] # "idle" /\ Unsupported(cname[c])) =>
            /\ pc[c] = "raised" /\ resource[c] = "none"
            /\ readPc[c] = "none" /\ writePc[c] = "none")

C17_Witness ==
  \E c \in Calls :
    /\ pc[c] = "raised" /\ err[c] = "UnsupportedTransport"
    /\ Unsupported(cname[c]) /\ active_sessions[cname[c]] = None

\* ------------------------------------------------- capability server
\* some tool of the loaded associations is in the resolver's mapping under
\* the name the request carries
Matches(r) ==
  \E i \in 1..Len(reqSnap[r].tools) :
    toolName[reqSnap[r].tools[i]] = reqName[r]

Last(q) == q[Len(q)]

\* C18: call_tool always answers with a normal response made of one text:
\* when no resolved tool of the server carries the name, the text is the
\* unknown-tool payload and nothing was invoked; when the invocation
\* raises, the text is the error payload.
C18_CallToolNeverRaises ==
  /\ [](\A r \in Reqs :
          (reqPc[r] = "done" /\ reqKind[r] = "call_tool") =>
            /\ resp[r].status = "ok"
            /\ Len(resp[r].body) = 1
            /\ resp[r].body[1].kind = "text")
  /\ [][\A r \in Reqs :
          (reqKind[r] = "call_tool" /\ reqPc[r] = "resolve"
             /\ reqPc'[r] # "resolve" /\ ~Matches(r)) =>
            /\ reqPc'[r] = "done"
            /\ resp'[r] = Ok(<<Text("Unknown tool", reqName[r], 0)>>)
            /\ invoked'[r] = << >>]_vars
  /\ [][\A r \in Reqs :
          (reqPc[r] = "invoke" /\ reqPc'[r] # "invoke"
             /\ Last(invoked'[r]).raised) =>
            /\ reqPc'[r] = "done"
            /\ resp'[r].status = "ok"
            /\ resp'[r].body[1].name = "Error calling tool"]_vars

\* the invocation of a found tool raised and the request was answered
C18_Witness ==
  \E r \in Reqs :
    /\ reqPc[r] = "done" /\ reqKind[r] = "call_tool"
    /\ Len(invoked[r]) = 1 /\ invoked[r][1].raised
    /\ resp[r] = Ok(<<Text("Error calling tool", reqTool[r], 0)>>)

\* positions of the loaded associations whose id the resolver resolves
ResolvedAt(r) ==
  {i \in 1..Len(reqSnap[r].tools) : toolName[reqSnap[r].tools[i]] # Absent}

\* the k-th of them
KthResolved(r, k) ==
  CHOOSE i \in ResolvedAt(r) : Cardinality({j \in ResolvedAt(r) : j < i}) = k - 1

\* C19: list_tools returns exactly one entry for each associated tool id
\* that the resolver resolves, in association order, and nothing for the
\* others.
C19_ListToolsDropsUnresolved ==
  [][\A r \in Reqs :
       (reqKind[r] = "list_tools" /\ reqPc[r] = "resolve"
          /\ reqPc'[r] # "resolve") =>
         /\ reqPc'[r] = "done"
         /\ resp'[r].status = "ok"
         /\ Len(resp'[r].body) = Cardinality(ResolvedAt(r))
         /\ \A k \in 1..Len(resp'[r].body) :
              /\ resp'[r].body[k].kind = "tool"
              /\ resp'[r].body[k].id = reqSnap[r].tools[KthResolved(r, k)]
              /\ resp'[r].body[k].name = toolName[resp'[r].body[k].id]]_vars

\* tool ids [A, B] with B unresolved: the result is the definition for A
C19_Witness ==
  \E r \in Reqs :
    /\ reqPc[r] = "done" /\ reqKind[r] = "list_tools"
    /\ reqSnap[r].tools = <<"A", "B">>
    /\ toolName["A"] # Absent /\ toolName["B"] = Absent
    /\ resp[r] = Ok(<<Entry("tool", toolName["A"], "A", 0)>>)

\* C20: when the virtual server does not exist at the time of the request's
\* query, list_tools, list_prompts and list_resources return the empty list
\* and no error.
C20_AbsentServerEmpty ==
  [][\A r \in Reqs :
       (reqKind[r] \in Discovery /\ reqPc[r] = "query"
          /\ reqPc'[r] # "query" /\ ~srvExists) =>
         /\ reqPc'[r] = "done"
         /\ resp'[r] = Ok(<< >>)]_vars

\* a list_resources request on an absent server was answered with []
C20_Witness ==
  \E r \in Reqs :
    /\ reqPc[r] = "done" /\ reqKind[r] = "list_resources"
    /\ ~reqSnap[r].exists /\ ~srvExists
    /\ resp[r] = Ok(<< >>)

\* ------------------------------------------------------------ input schema
\* names of the parameters marked required
MarkedRequired(q) == {q[i].name : i \in {j \in 1..Len(q) : q[j].name # "" /\ q[j].required}}

\* C28: the input schema is the body schema unchanged when the tool has one;
\* otherwise its properties are exactly the named parameters, each with the
\* type and default of a parameter of that name, and its required list holds
\* exactly the names marked required, each once.
C28_InputSchema ==
  schemaOut # NoSchema =>
    LET q == AllParams(schemaIn)
    IN  IF schemaIn.body # NoBody
          THEN schemaOut.body = schemaIn.body
          ELSE /\ schemaOut.body = NoBody
               /\ DOMAIN schemaOut.properties
                    = {q[i].name : i \in {j \in 1..Len(q) : q[j].name # ""}}
               /\ \A n \in DOMAIN schemaOut.properties :
                    \E i \in 1..Len(q) :
                      /\ q[i].name = n
                      /\ schemaOut.properties[n].type
                           = (IF q[i].type = NoType THEN "string" ELSE q[i].type)
                      /\ schemaOut.properties[n].default = q[i].default
               /\ {schemaOut.required[i] : i \in 1..Len(schemaOut.required)}
                    = MarkedRequired(q)
               /\ \A i, j \in 1..Len(schemaOut.required) :
                    i # j => schemaOut.required[i] # schemaOut.required[j]

\* ------------------------------------------------------------- get_prompt
\* request r is a get_prompt request whose handler answers in this step
GetPromptAnswers(r) ==
  reqKind[r] = "get_prompt" /\ reqPc[r] = "resolve" /\ reqPc'[r] = "done"

\* the answer of request r is the failure what
FailsWith(rp, what) ==
  rp.status = "fault" /\ Len(rp.body) = 1 /\ rp.body[1].name = what

\* the answer of request r is one entry of that kind
Returns(rp, kind) ==
  rp.status = "ok" /\ Len(rp.body) = 1 /\ rp.body[1].kind = kind

\* C21: get_prompt resolves in a fixed order: a stored template of that name
\* first (also under the help name or a use- name), then the help prompt,
\* then the use- prompt of the tool named by the rest of the name, and
\* otherwise it fails as not found.
C21_GetPromptOrder ==
  [][\A r \in Reqs : GetPromptAnswers(r) =>
       LET nm == reqName[r]
           isStored == \E i \in 1..Len(reqSnap[r].prompts) :
                         reqSnap[r].prompts[i] = nm
           rp == resp'[r]
       IN  /\ isStored =>
                \/ Returns(rp, "stored") /\ rp.body[1].name = nm
                \/ FailsWith(rp, "KeyError")
           /\ (~isStored /\ nm = HelpName) => Returns(rp, "help")
           /\ (~isStored /\ nm # HelpName /\ HasUsePrefix(nm)) =>
                \/ /\ Returns(rp, "use")
                   /\ toolName[rp.body[1].id] = StripUse(nm)
                \/ /\ FailsWith(rp, "Unknown tool")
                   /\ \A i \in 1..Len(reqSnap[r].tools) :
                        toolName[reqSnap[r].tools[i]] # StripUse(nm)
           /\ (~isStored /\ nm # HelpName /\ ~HasUsePrefix(nm)) =>
                FailsWith(rp, "Unknown prompt")]_vars

\* a stored template named like the help prompt answered in its place, and
\* so did one named like a use- prompt of a resolved tool
C21_Witness ==
  \E r \in Reqs :
    /\ reqPc[r] = "done" /\ reqKind[r] = "get_prompt"
    /\ reqName[r] \in {HelpName, "use-ta"}
    /\ Returns(resp[r], "stored") /\ resp[r].body[1].name = reqName[r]
    /\ \E i \in 1..Len(reqSnap[r].tools) : toolName[reqSnap[r].tools[i]] = "ta"

\* C22 as stated: for an existing virtual server, get_prompt of the help name
\* with no arguments always succeeds.
C22_HelpAlwaysSucceeds ==
  [][\A r \in Reqs :
       (GetPromptAnswers(r) /\ reqName[r] = HelpName /\ reqArgVals[r] = NoArgs)
         => resp'[r].status = "ok"]_vars

\* C22, amended: for an existing virtual server with no stored template
\* under the help name, get_prompt of the help name always succeeds with the
\* help prompt, whose tool list holds the resolved tools in association
\* order; it is empty when there is no associated tool or none resolves.
C22_HelpSucceedsUnlessShadowed ==
  [][\A r \in Reqs :
       (GetPromptAnswers(r) /\ reqName[r] = HelpName
          /\ \A i \in 1..Len(reqSnap[r].prompts) :
               reqSnap[r].prompts[i] # HelpName) =>
         /\ Returns(resp'[r], "help")
         /\ LET q == reqSnap[r].tools
                listed == resp'[r].body[1].args
            IN  /\ Len(listed) = Cardinality({i \in 1..Len(q) :
                                                toolName[q[i]] # Absent})
                /\ \A k \in 1..Len(listed) :
                     \E i \in 1..Len(q) : toolName[q[i]] = listed[k]
                /\ (\A i \in 1..Len(q) : toolName[q[i]] = Absent) =>
                     listed = << >>]_vars

\* the help prompt was returned with an empty tool list for a server whose
\* associated tools are all unresolved
C22_Witness ==
  \E r \in Reqs :
    /\ reqPc[r] = "done" /\ reqKind[r] = "get_prompt"
    /\ reqName[r] = HelpName /\ reqArgVals[r] = NoArgs
    /\ Len(reqSnap[r].tools) = 2
    /\ \A id \in ToolIds : toolName[id] = Absent
    /\ Returns(resp[r], "help") /\ resp[r].body[1].args = << >>

\* C23: a stored template is returned with every placeholder replaced by the
\* argument of the same name ("Add {a} and {b}" with a=1, b=2 gives
\* "Add 1 and 2"); when an argument is missing the call fails, it neither
\* returns a partly filled text nor goes on to the synthesized prompts.
C23_TemplateFill ==
  [][\A r \in Reqs :
       (GetPromptAnswers(r)
          /\ \E i \in 1..Len(reqSnap[r].prompts) :
               reqSnap[r].prompts[i] = reqName[r]) =>
         LET t == TemplateOf[reqName[r]]
             argv == reqArgVals[r]
             rp == resp'[r]
         IN  IF \A i \in 1..Len(t) : t[i].ph => t[i].s \in DOMAIN argv
               THEN /\ Returns(rp, "stored")
                    /\ Len(rp.body[1].args) = Len(t)
                    /\ \A i \in 1..Len(t) :
                         rp.body[1].args[i]
                           = (IF t[i].ph THEN argv[t[i].s] ELSE t[i].s)
                    /\ (reqName[r] = "p1" /\ DOMAIN argv = {"a", "b"}) =>
                         rp.body[1].args = <<"Add ", "1", " and ", "2">>
               ELSE FailsWith(rp, "KeyError")]_vars

\* "Add {a} and {b}" was asked for with a alone and the call failed
C23_Witness ==
  \E r \in Reqs :
    /\ reqPc[r] = "done" /\ reqKind[r] = "get_prompt"
    /\ reqName[r] = "p1" /\ DOMAIN reqArgVals[r] = {"a"}
    /\ FailsWith(resp[r], "KeyError")

\* C24: when call_tool found the tool, the invocation delegate is called
\* once, for that tool, with the arguments in the query when the tool's
\* method is GET and in a JSON body for any other method; when the call does
\* not raise and the result stream yields values, the response is one text
\* carrying the final value of the stream.
C24_DispatchAndResult ==
  [][\A r \in Reqs :
       (reqPc[r] = "invoke" /\ reqPc'[r] = "done") =>
         LET c == Last(invoked'[r])
         IN  /\ invoked'[r] = Append(invoked[r], c)
             /\ c.id = reqTool[r]
             /\ reqArgs[r] =>
                   /\ (MethodOf[c.id] = "GET") => c.place = "query"
                   /\ (MethodOf[c.id] # "GET") => c.place = "body"
             /\ (~c.raised /\ c.stream # << >>) =>
                   resp'[r] =
                     Ok(<<Text("result", c.id, c.stream[Len(c.stream)])>>)]_vars

\* a finished call_tool with arguments whose tool is not a GET tool and
\* whose result stream yielded several values
C24_Witness ==
  \E r \in Reqs :
    /\ reqKind[r] = "call_tool" /\ reqPc[r] = "done" /\ reqArgs[r]
    /\ Len(invoked[r]) = 1
    /\ MethodOf[invoked[r][1].id] # "GET"
    /\ invoked[r][1].place = "body"
    /\ Len(invoked[r][1].stream) > 1
    /\ resp[r].status = "ok"

\* C25: when several associated tools resolve to the requested name,
\* call_tool invokes the first of them in association order, skipping the
\* unresolved ids before it, and invokes nothing else.
C25_FirstInAssociationOrder ==
  [][/\ \A r \in Reqs :
       (reqKind[r] = "call_tool" /\ reqPc[r] = "resolve"
          /\ reqPc'[r] # "resolve") =>
         LET q == reqSnap[r].tools
             hit(i) == toolName[q[i]] # Absent /\ toolName[q[i]] = reqName[r]
         IN  \A i \in 1..Len(q) :
               (hit(i) /\ \A j \in 1..(i - 1) : ~hit(j)) =>
                 /\ reqPc'[r] = "invoke"
                 /\ reqTool'[r] = q[i]
                 /\ invoked'[r] = << >>
     /\ \A r \in Reqs :
          (reqKind[r] = "call_tool" /\ invoked'[r] # invoked[r]
             /\ reqPc[r] # "idle" /\ reqPc[r] # "done") =>
            /\ invoked[r] = << >>
            /\ Len(invoked'[r]) = 1
            /\ invoked'[r][1].id = reqTool[r]
            /\ reqPc'[r] = "done"]_vars

\* a finished call_tool that invoked the second associated tool's namesake
\* standing first in the association
C25_Witness ==
  \E r \in Reqs :
    /\ reqKind[r] = "call_tool" /\ reqPc[r] = "done"
    /\ Len(reqSnap[r].tools) = 2
    /\ toolName[reqSnap[r].tools[1]] = reqName[r]
    /\ toolName[reqSnap[r].tools[2]] = reqName[r]
    /\ Len(invoked[r]) = 1
    /\ invoked[r][1].id = reqSnap[r].tools[1]

\* C26: a list_prompts request that found the server returns the help
\* prompt, then every stored prompt template, then one use- prompt per
\* associated tool whose arguments are the tool's required parameters, or
\* the single body argument when the tool takes a JSON body.
C26_ListPromptsComplete ==
  [][\A r \in Reqs :
       (reqKind[r] = "list_prompts" /\ reqPc[r] # "done"
          /\ reqPc'[r] = "done" /\ reqSnap'[r].exists) =>
         LET q == reqSnap'[r].tools
             ps == reqSnap'[r].prompts
             b == resp'[r].body
         IN  /\ resp'[r].status = "ok"
             /\ Len(b) = 1 + Len(ps) + Len(q)
             /\ b[1] = EntryA("help", HelpName, "", << >>)
             /\ \A i \in 1..Len(ps) : b[1 + i] = Entry("prompt", ps[i], "", 0)
             /\ \A i \in 1..Len(q) :
                  LET u == b[1 + Len(ps) + i]
                  IN  /\ u.kind = "use" /\ u.id = q[i]
                      /\ u.args = PromptArgsOf(ParamsOf[q[i]])]_vars

\* C27: a list_resources request that found the server returns the
\* overview URI, every stored resource URI and one documentation URI per
\* associated tool; a read_resource whose uri equals a stored resource's
\* returns the stored resource, whatever else the uri matches.
C27_ResourcesComplete ==
  [][\A r \in Reqs :
       /\ (reqKind[r] = "list_resources" /\ reqPc[r] # "done"
             /\ reqPc'[r] = "done" /\ reqSnap'[r].exists) =>
            LET q == reqSnap'[r].tools
                rs == reqSnap'[r].resources
                b == resp'[r].body
            IN  /\ resp'[r].status = "ok"
                /\ Len(b) = 1 + Len(rs) + Len(q)
                /\ b[1] = Entry("overview", OverviewUri, "", 0)
                /\ \A i \in 1..Len(rs) :
                     b[1 + i] = Entry("resource", rs[i], "", 0)
                /\ \A i \in 1..Len(q) :
                     LET u == b[1 + Len(rs) + i]
                     IN  u.kind = "tooldoc" /\ u.id = q[i]
       /\ (reqKind[r] = "read_resource" /\ reqPc[r] = "resolve"
             /\ reqPc'[r] = "done"
             /\ reqName[r] \in Range(reqSnap[r].resources)) =>
            resp'[r] = Ok(<<Entry("stored", reqName[r], "", 0)>>)]_vars

\* C29: no capability request that found the server ends with an exception
\* of the handler's own code, whatever the store did while the request was
\* suspended; the failures the protocol declares (unknown prompt, unknown
\* tool, unknown resource, a template's missing argument) are answers.
C29_ToleratesStoreChanges ==
  \A r \in Reqs :
    (reqPc[r] = "done" /\ reqSnap[r].exists) => resp[r] # Fault

\* C30: a list_tools request loads the association as the store holds it
\* when the request's query runs and names the tools as the resolver holds
\* them when its lookup runs; nothing of another request or of an earlier
\* one enters the result.
C30_NoSharedCache ==
  [][\A r \in Reqs :
       /\ (reqPc[r] = "query" /\ reqPc'[r] = "resolve") =>
            reqSnap'[r].tools = assoc
       /\ (reqKind[r] = "list_tools" /\ reqPc[r] = "resolve"
             /\ reqPc'[r] = "done") =>
            resp'[r] = Ok(ToolEntries(reqSnap[r].tools, toolName))]_vars

\* two servers of the same name answered list_tools differently: the second
\* lists a tool the store gained after the first had answered
C30_Witness ==
  \E r1, r2 \in Reqs :
    /\ r1 # r2
    /\ reqKind[r1] = "list_tools" /\ reqKind[r2] = "list_tools"
    /\ reqPc[r1] = "done" /\ reqPc[r2] = "done"
    /\ resp[r1].status = "ok" /\ resp[r2].status = "ok"
    /\ reqSnap[r1].exists /\ reqSnap[r2].exists
    /\ Len(resp[r1].body) < Len(resp[r2].body)

\* ------------------------------------------------------ gateway dispatcher
\* the address carries a third path segment, the virtual-server name
HasName(path) == Len(PathParts(path)) >= 3

\* C31: a connection whose address carries no virtual-server name is
\* answered with 400, one that names a server that is absent or not enabled
\* with 404; a rejected connection is closed, no capability server was
\* constructed for it and its run-loop was not started.
C31_Rejections ==
  [][/\ (connPc \in {"idle", "closed"} /\ connVars' # connVars
           /\ ~HasName(connPath')) =>
          connStatus' = 400 /\ connPc' = "closed"
     /\ (connPc = "check" /\ connPc' # "check"
           /\ ~(PathParts(connPath)[3] = McpName /\ srvExists /\ srvActive)) =>
          connStatus' = 404 /\ connPc' = "closed"
     /\ connStatus' \in {400, 404} =>
          connPc' = "closed" /\ connBuilt' = 0 /\ ~connRan']_vars

\* a connection naming the existing but disabled server was rejected with 404
C31_Witness ==
  /\ connStatus = 404 /\ connPc = "closed"
  /\ PathParts(connPath)[3] = McpName
  /\ srvExists /\ ~srvActive
  /\ connBuilt = 0 /\ ~connRan

\* C32: disabling the virtual server leaves an open connection open, and a
\* request of the connection is answered from the store as it is when the
\* request runs, whether the server is enabled or not.
C32_CheckedOnceAtAccept ==
  [][/\ (connPc = "open" /\ srvActive' # srvActive) => connPc' = "open"
     /\ \A r \in Reqs :
          /\ (reqPc[r] = "query" /\ reqPc'[r] # "query" /\ srvExists) =>
               /\ reqPc'[r] = "resolve"
               /\ reqSnap'[r].exists /\ reqSnap'[r].tools = assoc
          /\ (reqKind[r] = "list_tools" /\ reqPc[r] = "resolve"
                /\ reqPc'[r] # "resolve") =>
               resp'[r] = Ok(ToolEntries(reqSnap[r].tools, toolName))]_vars

\* the connection is open, the server is disabled, and a list_tools request
\* that ran after the disabling returned a tool
C32_Witness ==
  /\ connPc = "open" /\ srvExists /\ ~srvActive
  /\ \E r \in Reqs :
       /\ reqPc[r] = "done" /\ reqKind[r] = "list_tools"
       /\ reqSnap[r].exists /\ ~reqSnap[r].active
       /\ resp[r].status = "ok" /\ Len(resp[r].body) >= 1

\* ------------------------------------------------ overlapping scopes, stop
\* the start_server scope of call c is open: its session was yielded and
\* control has not left the scope
ScopeOpen(c) == pc[c] \in {"initializing", "body"}

\* C33: while a start_server scope for a name is open and no stop_server for
\* the name has begun, the name is in the active-session table and the
\* recorded session is the session of a scope for that name that is still
\* open.
C33_ListedWhileScopeOpen ==
  \A n \in Names :
    ((\E c \in Calls : ScopeOpen(c) /\ cname[c] = n)
       /\ \A t \in Stoppers : stopPc[t] = "idle" \/ stopName[t] # n) =>
      /\ active_sessions[n] # None
      /\ ScopeOpen(active_sessions[n])
      /\ cname[active_sessions[n]] = n

\* C34: stop_server never ends with an error, whatever removed the table
\* entry while it waited in session.close().
C34_StopNeverFails ==
  \A t \in Stoppers : stopPc[t] # "raised"

\* ------------------------------------------------ initialize_server errors
\* C35: a call of initialize_server whose body was entered and raised ends
\* with the caller's own exception, not with the initialization error.
C35_CallerErrorUnchanged ==
  \A c \in Calls :
    (ckind[c] = "initialize" /\ pc[c] = "raised" /\ Started(c)) =>
      err[c] = "CallerError"

\* C36: when session.initialize() fails, no hook is invoked, the call ends
\* with the initialization error without its body having been entered, and
\* the name is out of the active-session table.
C36_HandshakeFailure ==
  [][\A c \in Calls :
       (pc[c] = "initializing" /\ pc'[c] # "initializing"
          /\ sessState'[c] # "ready") =>
         /\ hookUsed'[c] = << >>
         /\ pc'[c] = "raised"
         /\ err'[c] = InitError
         /\ ~Started(c)'
         /\ active_sessions'[cname[c]] = None]_vars

\* a handshake failed although a hook was passed and another one registered
C36_Witness ==
  \E c \in Calls :
    /\ ckind[c] = "initialize" /\ pc[c] = "raised"
    /\ trace[c] = <<"recorded", "handshake_failed">>
    /\ chook[c] # NoHook
    /\ init_hooks[cname[c]] # NoHook
    /\ hookUsed[c] = << >>
    /\ active_sessions[cname[c]] = None

\* ------------------------------------------------ discovery and invocation
\* the associated tool ids of server_obj that tool_map resolves
ResolvedIds(snap, tn) ==
  {snap.tools[i] : i \in {j \in 1..Len(snap.tools) : tn[snap.tools[j]] # Absent}}

\* the uris list_resources names for these store contents: the overview,
\* the stored resources, the documentation of every resolved associated tool
ListedUris(snap, tn) ==
  {OverviewUri} \cup Range(snap.resources)
    \cup {DocOf[tn[id]] : id \in ResolvedIds(snap, tn)}

\* C38: read_resource returns content exactly for the uris list_resources
\* names under the same store contents, and fails with the not-found
\* failure for every other uri.
C38_OnlyListedUris ==
  [][\A r \in Reqs :
       (reqKind[r] = "read_resource" /\ reqPc[r] = "resolve"
          /\ reqPc'[r] = "done") =>
         IF reqName[r] \in ListedUris(reqSnap[r], toolName)
           THEN resp'[r].status = "ok"
           ELSE resp'[r] \in {FaultOf("Unknown resource"),
                              FaultOf("Unknown tool")}]_vars

\* C39: a call_tool request calls the invocation delegate at most once, and
\* only for an associated tool that resolved to the requested name; a
\* request that ends without a call (no server row, no matching tool)
\* returns one text that says so.
C39_AtMostOneInvocation ==
  [][\A r \in Reqs :
       reqKind'[r] = "call_tool" =>
         /\ Len(invoked'[r]) <= 1
         /\ invoked'[r] # << >> =>
              /\ reqSnap'[r].exists
              /\ reqTool'[r] \in Range(reqSnap'[r].tools)
              /\ invoked'[r][1].id = reqTool'[r]
         /\ (reqPc[r] = "resolve" /\ reqPc'[r] = "invoke") =>
              toolName[reqTool'[r]] = reqName[r]
         /\ (reqPc[r] # "done" /\ reqPc'[r] = "done"
               /\ invoked'[r] = << >>) =>
              /\ ~reqSnap'[r].exists
                   \/ FirstMatch(reqSnap'[r].tools, toolName, reqName[r]) = Absent
              /\ resp'[r] \in
                   {Ok(<<Text("MCP server not found", "", 0)>>),
                    Ok(<<Text("Unknown tool", reqName[r], 0)>>)}]_vars

\* a call_tool request found the server row gone and returned the text
\* without calling the delegate
C39_Witness ==
  \E r \in Reqs :
    /\ reqKind[r] = "call_tool" /\ reqPc[r] = "done"
    /\ ~reqSnap[r].exists
    /\ invoked[r] = << >>
    /\ resp[r] = Ok(<<Text("MCP server not found", "", 0)>>)
    /\ \E id \in ToolIds : toolName[id] = reqName[r]

\* what list_prompts / list_resources return for these store contents:
\* nothing when the per-tool loop fails on an unresolved tool
ListedEntries(kind, snap, tn) ==
  IF \E i \in 1..Len(snap.tools) : tn[snap.tools[i]] = Absent
    THEN << >>
    ELSE BaseEntries(kind, snap.prompts, snap.resources)
           \o [i \in 1..Len(snap.tools) |-> PerToolEntry(kind, snap.tools[i], tn)]

\* the names (uris) of the entries of a list result
NamesOf(entries) == {entries[i].name : i \in 1..Len(entries)}

\* C37: under the store contents a request sees, call_tool accepts every
\* name list_tools returns, get_prompt resolves every name list_prompts
\* returns and read_resource reads every uri list_resources returns, none
\* of them ending in a not-found answer.
C37_DiscoveryAgreesWithInvocation ==
  [][\A r \in Reqs :
       (reqPc[r] = "resolve" /\ reqPc'[r] # "resolve") =>
         LET snap == reqSnap[r]
             notFound == {FaultOf("Unknown prompt"), FaultOf("Unknown tool"),
                          FaultOf("Unknown resource")}
         IN  /\ (reqKind[r] = "call_tool"
                   /\ reqName[r] \in NamesOf(ToolEntries(snap.tools, toolName))) =>
                  reqPc'[r] = "invoke"
             /\ (reqKind[r] = "get_prompt"
                   /\ reqName[r] \in
                        NamesOf(ListedEntries("list_prompts", snap, toolName))) =>
                  resp'[r] \notin notFound
             /\ (reqKind[r] = "read_resource"
                   /\ reqName[r] \in
                        NamesOf(ListedEntries("list_resources", snap, toolName))) =>
                  resp'[r] \notin notFound]_vars
====
